---- MODULE Spec2Model ----
(***************************************************************************)
(* Companion Behavior Coordinator of pestval/Companion-Mod.                *)
(*                                                                         *)
(* The model follows ScriptMain's per-frame loop (src/CompanionMod/        *)
(* main.cpp:99-520) block by block: one action per block, sequenced by pc. *)
(* The game world is external: every sensor value is drawn when the code   *)
(* reads it; what the engine keeps about the companion entity (its handle, *)
(* whether it exists, whether it is frozen) and about the player handle is *)
(* state.  `calls` records, in order, the EngineAdapter calls the loop     *)
(* body made in the current tick.                                          *)
(*                                                                         *)
(* Lengths are in decimetres (0.1 m), so that the 0.10 m drift threshold   *)
(* and the 50 m teleport threshold are both integers.  Logger calls, the   *)
(* on-screen text and the heartbeat frame counter have no effect on the    *)
(* coordinator and are left out.                                           *)
(***************************************************************************)
EXTENDS Integers, Sequences, FiniteSets, TLC

\* ------------------------------------------------------------------ bounds

\* Ticks a run of the unrestricted environment may take.
MaxTick == 3

\* Vehicle handles the player may be found in: 1..MaxVeh (0 = no vehicle).
MaxVeh == 2

\* Start-up ticks in which nothing happens, before the environment of
\* SpecLate becomes unrestricted for MaxTick ticks.
QuietTicks == 58

\* First ticks of SpecCooldown and SpecRecovery, in which the spawn toggle
\* may be pressed.
SpawnTicks == 1

\* Ticks a run of SpecCooldown may take (two refresh intervals and a bit).
MaxCooldownTick == 125

\* Ticks a run of SpecRecovery may take (two teleport cooldowns and a bit).
MaxRecoveryTick == 601

\* Ticks a run of SpecCommute may take (two refresh intervals and a bit).
MaxCommuteTick == 124

\* Ticks a run of SpecRoaming may take (one teleport cooldown and a bit),
\* and the ticks of it in which nothing happens to the player.
MaxRoamingTick == 303
SettledTicks == 298

\* Stay-toggle presses counted since a mission start edge.
MaxPresses == 2

\* Ticks a run of SpecVigil may take (two resnap intervals and a bit), and
\* the ticks of it, after the spawn, in which the stay toggle may be pressed.
MaxVigilTick == 125
StayTicks == 2

\* Ticks a run of SpecOutage may take.
MaxOutageTick == 5

\* The ticks before the wrap-around in which anything happens, and the
\* ticks run after it.
WrapWindow == 3
WrapRunTicks == 310

\* Companion entities without a stored handle that are counted.
MaxLeaked == 2

\* Ticks a run of SpecMission may take.
MaxMissionTick == 5

\* Width, in bits, of the model's unsigned tick counter and tick stamps.
TickBits == 10

TickModulus == 2 ^ TickBits

\* --------------------------------------------------------- program constants

FOLLOW_REFRESH_TICKS == 60

TELEPORT_DIST_METERS == 50

\* Decimetres per metre: the resolution that makes DRIFT (0.10f m) equal to 1.
DM == 10

TELEPORT_DIST_SQ == (TELEPORT_DIST_METERS * DM) * (TELEPORT_DIST_METERS * DM)

TELEPORT_COOLDOWN_TICKS == 300

STAY_SNAP_TICKS == 60

\* const float DRIFT_SQ = 0.10f * 0.10f, in square decimetres.
DRIFT_SQ == 1 * 1

\* Heartbeat log period of CompanionCore::Tick.
LOG_PERIOD_TICKS == 120

\* Seat indices tried by the ride block, in the order of the if / else-if chain.
SeatOrder == <<0, 1, 2>>

\* int chosenSeat = -999
NO_SEAT == -999

VK_F5 == 116

VK_F6 == 117

VK_F7 == 118

Keys == {VK_F5, VK_F6, VK_F7}

\* ------------------------------------------------------------------- types

Vec3(x, y, z) == [x |-> x, y |-> y, z |-> z]

\* Vec3 out{};
ZeroVec == Vec3(0, 0, 0)

\* Offset passed to every TeleportTestPedNearPlayer call: (1.2f, 0.8f, 0.0f).
NearOffset == Vec3(12, 8, 0)

DistSq(a, b) ==
    LET dx == a.x - b.x
        dy == a.y - b.y
        dz == a.z - b.z
    IN  dx * dx + dy * dy + dz * dz

\* Positions the player may be read at (not the origin, which is what
\* GetPlayerPosition answers without a player handle).
PlayerPoints == {Vec3(100, 0, 0)}

\* Positions the companion may be read at: the teleport offset from the
\* player, a point 1 dm from it (inside the drift threshold), and a point
\* far from both (outside the drift threshold and the teleport distance).
PedNear == Vec3(112, 8, 0)

PedFar == Vec3(700, 0, 0)

PedPoints == {PedNear, Vec3(113, 8, 0), PedFar}

\* Mutant: the subtraction is not reduced modulo 2^w.
USub_Signed(a, b) == a - b

\* uint32_t subtraction, at the model's width.
USub(a, b) == (a - b) % TickModulus

\* CompanionState{} (CompanionCore.h:31-43)
InitState ==
    [mode |-> "Protection", spawned |-> FALSE, stayEnabled |-> FALSE,
     hasStayAnchor |-> FALSE, stayAnchor |-> ZeroVec, ridingVehicle |-> FALSE]

\* CompanionContext ctx{} (CompanionCore.h:18-29)
InitContext ==
    [tickCount |-> 0, playerExists |-> FALSE, playerDead |-> FALSE,
     playerInVehicle |-> FALSE, playerPos |-> ZeroVec]

\* CompanionCommands cmd{} (CompanionCore.h:45-58)
InitCommands ==
    [requestLog |-> FALSE, requestSpawn |-> FALSE, requestDespawn |-> FALSE,
     requestFollow |-> FALSE, followDistance |-> 20, followSpeed |-> 30,
     followRefreshTicks |-> 60, requestStay |-> FALSE]

\* ------------------------------------------------------------- Mode Decision

\* Mutant: Mode Decision does not look at whether the player is dead.
CoreTick_IgnoresDeath(c, state) ==
    LET out0 == InitCommands
        out1 == IF c.tickCount % LOG_PERIOD_TICKS = 0
                THEN [out0 EXCEPT !.requestLog = TRUE] ELSE out0
        out2 == IF state.spawned /\ c.playerExists
                THEN IF state.stayEnabled
                     THEN [out1 EXCEPT !.requestStay = TRUE, !.requestFollow = FALSE]
                     ELSE [out1 EXCEPT !.requestStay = FALSE, !.requestFollow = TRUE,
                                       !.followDistance = 20, !.followSpeed = 30,
                                       !.followRefreshTicks = 60]
                ELSE out1
    IN  [out |-> out2, state |-> state]

\* Mutant: Mode Decision asks for a spawn whenever the companion is not
\* spawned.
CoreTick_TogglesSpawn(c, state) ==
    LET out0 == InitCommands
        out1 == IF c.tickCount % LOG_PERIOD_TICKS = 0
                THEN [out0 EXCEPT !.requestLog = TRUE] ELSE out0
        out2 == IF state.spawned /\ c.playerExists /\ ~c.playerDead
                THEN IF state.stayEnabled
                     THEN [out1 EXCEPT !.requestStay = TRUE, !.requestFollow = FALSE]
                     ELSE [out1 EXCEPT !.requestStay = FALSE, !.requestFollow = TRUE,
                                       !.followDistance = 20, !.followSpeed = 30,
                                       !.followRefreshTicks = 60]
                ELSE [out1 EXCEPT !.requestSpawn = ~state.spawned]
    IN  [out |-> out2, state |-> state]

\* CompanionCore::Tick: the commands it writes to `out`, and the state it
\* leaves behind (it takes the state by non-const reference).
CoreTick(c, state) ==
    LET out0 == InitCommands
        out1 == IF c.tickCount % LOG_PERIOD_TICKS = 0
                THEN [out0 EXCEPT !.requestLog = TRUE] ELSE out0
        out2 == IF state.spawned /\ c.playerExists /\ ~c.playerDead
                THEN IF state.stayEnabled
                     THEN [out1 EXCEPT !.requestStay = TRUE, !.requestFollow = FALSE]
                     ELSE [out1 EXCEPT !.requestStay = FALSE, !.requestFollow = TRUE,
                                       !.followDistance = 20, !.followSpeed = 30,
                                       !.followRefreshTicks = 60]
                ELSE out1
    IN  [out |-> out2, state |-> state]

\* ------------------------------------------------------------------- state

VARIABLES
    \* main.cpp statics (lines 46-74)
    g_state, g_tickCount, g_lastFollowTick, g_lastTeleportTick,
    g_stayToggle, g_isStayingActive, g_lastStaySnapTick,
    g_wasMissionActive, g_companionWasSpawnedBeforeMission,
    g_stayToggleBeforeMission,
    g_isRiding, g_ridingVehicleHandle, g_wasPlayerInVehicle,
    \* locals of the loop body
    isMissionActive, ctx, cmd,
    \* the block of the loop body that runs next
    pc,
    \* EngineAdapter.cpp statics: the stored companion handle, and the
    \* previous-state table of IsKeyJustPressed (TRUE = was down)
    g_testPed, prev,
    \* the engine: does the entity behind g_testPed exist, is it frozen,
    \* the handle PLAYER_PED_ID returns in this frame, the vehicle the
    \* player is in (0 = none)
    pedExists, pedFrozen, playerPed, playerVeh,
    \* the engine: the vehicle the companion entity sits in (0 = none);
    \* no block of the loop reads it (GetTestPedVehicleHandle has no caller)
    pedVeh,
    \* EngineAdapter calls made by the loop body in this tick, in order
    calls,
    \* observers, which no action reads:
    \* the tick of the last follow issuance since which the follow gate has
    \* held in every tick (0 = none); the same, also forgotten when another
    \* block writes g_lastFollowTick
    runIssue, cleanIssue,
    \* the tick since which, in every tick, the auto-teleport gate has held
    \* with the companion too far and no other block wrote
    \* g_lastTeleportTick (0 = not so in the last tick)
    farSince,
    \* consecutive ticks, up to now, whose stay block found stay requested
    \* and the companion spawned (counted to 2), and the anchor held when
    \* the first of them ended
    stayRun, runAnchor,
    \* what the F7 block did when it last ran: "spawned" (a spawn attempt
    \* that succeeded), "failed" (one that did not), "despawned", "none"
    lastToggle,
    \* the edge the mission gate handled when it last ran ("start", "end",
    \* "none"), the stay toggle it found at the last start edge, and the
    \* stay-toggle presses since then (counted to MaxPresses)
    gateEdge, stayAtStart, missionPresses,
    \* did the follow gating condition hold when the follow block last ran
    gateHeld,
    \* the tick of the latest follow issuance (0 = none yet), the ticks
    \* between the latest two (0 = fewer than two), and whether the latest
    \* one found the last-follow tick reset to 0
    lastIssue, issueGap, issueAfterReset,
    \* the tick of the latest auto-teleport (0 = none yet)
    lastAuto,
    \* has a respawn at an end edge failed with no spawn-toggle key edge since
    respawnFailed,
    \* has the tick counter wrapped around
    wrapped,
    \* a call of SpawnTestPed in progress (EngineAdapter.cpp:192-197): the
    \* loop counter i, and the polls of HAS_MODEL_LOADED and the WAIT(0)
    \* yields its loop has made
    spawnWait,
    \* observers of the adapter on its own: the state each key was in when
    \* GetAsyncKeyState last read it, and the companion entities that exist
    \* in the world with no stored handle left to them
    lastDown, leaked

progVars ==
    <<g_state, g_tickCount, g_lastFollowTick, g_lastTeleportTick,
      g_stayToggle, g_isStayingActive, g_lastStaySnapTick,
      g_wasMissionActive, g_companionWasSpawnedBeforeMission,
      g_stayToggleBeforeMission,
      g_isRiding, g_ridingVehicleHandle, g_wasPlayerInVehicle>>

localVars == <<isMissionActive, ctx, cmd>>

adapterVars == <<g_testPed, prev>>

engineVars == <<pedExists, pedFrozen, playerPed, playerVeh>>

obsVars ==
    <<runIssue, cleanIssue, farSince, stayRun, runAnchor, lastToggle,
      gateEdge, stayAtStart, missionPresses, gateHeld,
      lastIssue, issueGap, issueAfterReset, lastAuto, respawnFailed,
      wrapped>>

\* What only the adapter on its own moves.
callVars == <<spawnWait, lastDown, leaked>>

vars ==
    <<progVars, localVars, pc, adapterVars, engineVars, pedVeh, calls, obsVars,
      callVars>>

\* ------------------------------------------------------------- environment

\* What the engine may answer in one tick: a set of values per sensor.
\*   mission  GET_MISSION_FLAG
\*   keys     keys GetAsyncKeyState may report down
\*   player   PLAYER_PED_ID / DOES_ENTITY_EXIST / IS_PED_DEAD_OR_DYING
\*   veh      GET_VEHICLE_PED_IS_IN(player)
\*   ppos     GET_ENTITY_COORDS(player)
\*   pedpos   GET_ENTITY_COORDS(companion)
\*   seats    sets of free seats IS_VEHICLE_SEAT_FREE may describe
\*   mount    DOES_ENTITY_EXIST after SET_PED_INTO_VEHICLE
\*   load     HAS_MODEL_LOADED: at once, after some polls, never in 120
\*   create   CREATE_PED: an entity, handle 0, or a handle with no entity
\*   vanish   may the engine delete the companion between two frames
\*   eject    may the engine take the companion out of its vehicle between
\*            two frames
Unrestricted ==
    [mission |-> BOOLEAN,
     keys    |-> Keys,
     player  |-> {"none", "gone", "alive", "dead"},
     veh     |-> 0..MaxVeh,
     ppos    |-> PlayerPoints,
     pedpos  |-> PedPoints,
     seats   |-> SUBSET {-1, 0, 1, 2},
     mount   |-> BOOLEAN,
     load    |-> {"ready", "waited", "timeout"},
     create  |-> {"ok", "zero", "ghost"},
     vanish  |-> BOOLEAN,
     eject   |-> BOOLEAN]

\* An uneventful frame: no mission, no key down, the player alive and on
\* foot with the companion beside them, and an engine that does what it is
\* asked at once.
Nominal ==
    [mission |-> {FALSE},
     keys    |-> {},
     player  |-> {"alive"},
     veh     |-> {0},
     ppos    |-> PlayerPoints,
     pedpos  |-> {PedNear},
     seats   |-> {{0, 1, 2}},
     mount   |-> {TRUE},
     load    |-> {"ready"},
     create  |-> {"ok"},
     vanish  |-> {FALSE},
     eject   |-> {FALSE}]

\* Nothing happens for QuietTicks ticks, then anything may.
Late(t) == IF t <= QuietTicks THEN Nominal ELSE Unrestricted

\* A walk with the companion: it may be spawned in the first SpawnTicks
\* ticks and recalled at any time after.
Stroll(t) ==
    [Nominal EXCEPT !.keys = IF t <= SpawnTicks THEN {VK_F7} ELSE {VK_F5}]

\* A companion left far behind: spawned (and possibly recalled) in the first
\* SpawnTicks ticks, read at any distance until the tick after, and from
\* then on always too far away.
Stranded(t) ==
    [Nominal EXCEPT !.keys = IF t <= SpawnTicks THEN {VK_F5, VK_F7} ELSE {},
                    !.pedpos = IF t <= SpawnTicks + 1 THEN PedPoints ELSE {PedFar}]

\* A player who gets in and out of a vehicle with every seat free: the
\* companion may be spawned in the first SpawnTicks ticks, no key is
\* pressed after.
Commute(t) ==
    [Nominal EXCEPT !.keys = IF t <= SpawnTicks THEN {VK_F7} ELSE {},
                    !.veh = IF t <= SpawnTicks THEN {0} ELSE {0, 1}]

\* A companion left far behind: spawned in the first SpawnTicks ticks and
\* always too far away; the player stays on foot and presses nothing for
\* SettledTicks ticks, and from then on may get in and out of a full
\* vehicle and press the recall key.
Roaming(t) ==
    [Nominal EXCEPT !.keys = IF t <= SpawnTicks THEN {VK_F7}
                             ELSE IF t <= SettledTicks THEN {} ELSE {VK_F5},
                    !.pedpos = {PedFar},
                    !.veh = IF t <= SettledTicks THEN {0} ELSE {0, 1},
                    !.seats = {{}}]

\* A companion told to hold position: spawned in the first SpawnTicks
\* ticks, the stay toggle may be pressed in the StayTicks ticks after, then
\* nothing is pressed until the last StayTicks + 1 ticks of the run, in
\* which the stay toggle and the recall key may be; the companion is read
\* at any of its positions.
Vigil(t) ==
    [Nominal EXCEPT !.keys = IF t <= SpawnTicks THEN {VK_F7}
                             ELSE IF t <= SpawnTicks + StayTicks THEN {VK_F6}
                             ELSE IF t < MaxVigilTick - StayTicks THEN {}
                             ELSE {VK_F5, VK_F6},
                    !.pedpos = PedPoints]

\* Missions come and go around a player who may press the spawn toggle,
\* with an engine that may fail to load or create the companion and may
\* delete it between frames.
Outage ==
    [Nominal EXCEPT !.mission = BOOLEAN, !.keys = {VK_F7},
                    !.load = {"ready", "waited", "timeout"},
                    !.create = {"ok", "zero", "ghost"},
                    !.vanish = BOOLEAN]

\* A companion far behind, which may be spawned or despawned, around a
\* player who may get in and out of a full vehicle, in the WrapWindow ticks
\* before the tick counter wraps around; nothing is pressed and the player
\* is on foot at any other time.
Rollover(t) ==
    [Nominal EXCEPT !.keys = IF t >= TickModulus - WrapWindow THEN {VK_F7} ELSE {},
                    !.veh = IF t >= TickModulus - WrapWindow THEN {0, 1} ELSE {0},
                    !.pedpos = {PedFar},
                    !.seats = {{}}]

\* Missions come and go and any key may be pressed, around an otherwise
\* uneventful player and engine.
Campaign ==
    [Nominal EXCEPT !.mission = BOOLEAN, !.keys = Keys]

\* ----------------------------------------------------------- EngineAdapter

\* One EngineAdapter call: the block of the loop body that made it, the
\* function, and its integer arguments (or, for a position query, its answer).
Call(site, op, arg) == [site |-> site, op |-> op, arg |-> arg]

VecArg(v) == <<v.x, v.y, v.z>>

\* Mutant: the existence check always fails.
DoesTestPedExist_Never(ped, exists) == FALSE

\* EngineAdapter::DoesTestPedExist
DoesTestPedExist(ped, exists) == ped # 0 /\ exists

\* EngineAdapter::PlayerExists
PlayerExists(kind) == kind \in {"alive", "dead"}

\* EngineAdapter::IsPlayerDead: true without a handle; the engine's answer
\* otherwise (`deadAnswer` for an entity that no longer exists).
IsPlayerDead(kind, deadAnswer) ==
    CASE kind = "none"  -> TRUE
      [] kind = "gone"  -> deadAnswer
      [] kind = "dead"  -> TRUE
      [] kind = "alive" -> FALSE

\* EngineAdapter::IsPlayerInVehicle
IsPlayerInVehicle(kind, veh) == kind # "none" /\ veh # 0

\* EngineAdapter::GetPlayerPosition
GetPlayerPosition(handle, pos) == IF handle = 0 THEN ZeroVec ELSE pos

\* EngineAdapter::GetPlayerVehicleHandle
GetPlayerVehicleHandle(handle, veh) == IF handle = 0 THEN 0 ELSE veh

\* EngineAdapter::GetTestPedPosition
GetTestPedPosition(ped, exists, pos) ==
    IF ~DoesTestPedExist(ped, exists) THEN ZeroVec ELSE pos

\* EngineAdapter::IsVehicleSeatFree
IsVehicleSeatFree(veh, seat, free) == IF veh = 0 THEN FALSE ELSE seat \in free

\* EngineAdapter::FreezeTestPed: the companion's frozen flag afterwards.
FreezeTestPed(ped, exists, frozen, freeze) ==
    IF ~DoesTestPedExist(ped, exists) THEN frozen ELSE freeze

\* EngineAdapter::TaskFollowPlayer: the frozen flag afterwards (past its
\* guards it unfreezes the companion before it tasks it).
TaskFollowPlayer(ped, exists, handle, frozen) ==
    IF DoesTestPedExist(ped, exists) /\ handle # 0 THEN FALSE ELSE frozen

\* EngineAdapter::TeleportTestPedNearPlayer: does it reach the engine (it
\* then clears tasks, sets the position and unfreezes).
TeleportReaches(ped, exists, handle) ==
    DoesTestPedExist(ped, exists) /\ handle # 0

\* EngineAdapter::TeleportTestPedNearPlayer: the frozen flag afterwards.
TeleportTestPedNearPlayer(ped, exists, handle, frozen) ==
    IF TeleportReaches(ped, exists, handle) THEN FALSE ELSE frozen

\* EngineAdapter::PutTestPedIntoVehicle: [ok, exists, frozen] afterwards;
\* `survives` is the engine's DOES_ENTITY_EXIST after the warp.
PutTestPedIntoVehicle(ped, exists, frozen, veh, survives) ==
    IF ~DoesTestPedExist(ped, exists) \/ veh = 0
    THEN [ok |-> FALSE, exists |-> exists, frozen |-> frozen]
    ELSE [ok |-> survives, exists |-> survives, frozen |-> FALSE]

\* EngineAdapter::SpawnTestPed: [ok, ped, exists, frozen] afterwards.
SpawnTestPed(ped, exists, frozen, load, create) ==
    IF ped # 0 /\ exists
    THEN [ok |-> TRUE, ped |-> ped, exists |-> exists, frozen |-> frozen]
    ELSE IF load = "timeout"
    THEN [ok |-> FALSE, ped |-> ped, exists |-> exists, frozen |-> frozen]
    ELSE CASE create = "ok"    -> [ok |-> TRUE,  ped |-> 1, exists |-> TRUE,  frozen |-> FALSE]
           [] create = "zero"  -> [ok |-> FALSE, ped |-> 0, exists |-> FALSE, frozen |-> FALSE]
           [] create = "ghost" -> [ok |-> FALSE, ped |-> 1, exists |-> FALSE, frozen |-> FALSE]

\* EngineAdapter::SpawnTestPed yields to the host (WAIT(0)) while it polls.
SpawnWaits(ped, exists, load) == ~(ped # 0 /\ exists) /\ load # "ready"

\* EngineAdapter::DespawnTestPed: [ped, exists, frozen] afterwards.
DespawnTestPed(ped, exists, frozen) ==
    IF ped = 0
    THEN [ped |-> ped, exists |-> exists, frozen |-> frozen]
    ELSE [ped |-> 0, exists |-> FALSE, frozen |-> FALSE]

\* Mutant: a key counts as pressed for as long as it is held.
IsKeyJustPressed_Level(wasDown, downNow) == downNow

\* EngineAdapter::IsKeyJustPressed: the result, for the table entry wasDown
\* and the key state downNow (the entry becomes downNow).
IsKeyJustPressed(wasDown, downNow) == downNow /\ ~wasDown

\* EngineAdapter.cpp:192.  No call of SpawnTestPed is in its loop.
NoWait == [i |-> 0, polls |-> 0, waits |-> 0]

\* -------------------------------------------------------------------- Init

Init ==
    /\ g_state = InitState
    /\ g_tickCount = 0
    /\ g_lastFollowTick = 0
    /\ g_lastTeleportTick = 0
    /\ g_stayToggle = FALSE
    /\ g_isStayingActive = FALSE
    /\ g_lastStaySnapTick = 0
    /\ g_wasMissionActive = FALSE
    /\ g_companionWasSpawnedBeforeMission = FALSE
    /\ g_stayToggleBeforeMission = FALSE
    /\ g_isRiding = FALSE
    /\ g_ridingVehicleHandle = 0
    /\ g_wasPlayerInVehicle = FALSE
    /\ isMissionActive = FALSE
    /\ ctx = InitContext
    /\ cmd = InitCommands
    /\ pc = "gate"
    /\ g_testPed = 0
    /\ prev = [k \in Keys |-> FALSE]
    /\ pedExists = FALSE
    /\ pedFrozen = FALSE
    /\ playerPed = 0
    /\ playerVeh = 0
    /\ pedVeh = 0
    /\ calls = <<>>
    /\ runIssue = 0
    /\ cleanIssue = 0
    /\ farSince = 0
    /\ stayRun = 0
    /\ runAnchor = ZeroVec
    /\ lastToggle = "none"
    /\ gateEdge = "none"
    /\ stayAtStart = FALSE
    /\ missionPresses = 0
    /\ gateHeld = FALSE
    /\ lastIssue = 0
    /\ issueGap = 0
    /\ issueAfterReset = FALSE
    /\ lastAuto = 0
    /\ respawnFailed = FALSE
    /\ wrapped = FALSE
    /\ spawnWait = NoWait
    /\ lastDown = [k \in Keys |-> FALSE]
    /\ leaked = 0


\* ----------------------------------------------------------------- actions

\* The answers S of a sensor, when the code reads it; one of them when it
\* does not (the answer then has no effect).
Read(S, reads) == IF reads THEN S ELSE {CHOOSE x \in S : TRUE}

\* Key states GetAsyncKeyState may report for key k under environment E.
KeyStates(E, k) == IF k \in E.keys THEN BOOLEAN ELSE {FALSE}

\* Mutant: clearing the riding state leaves the riding flag set.
ClearedRide_StillRiding(lastFollow) ==
    [riding |-> TRUE, handle |-> 0, lastFollow |-> lastFollow]

\* main.cpp:215-217, 231-232.  The riding flag, latched handle and
\* last-follow tick once the riding state is cleared.
ClearedRide(lastFollow) ==
    [riding |-> FALSE, handle |-> 0, lastFollow |-> lastFollow]

\* Mutant: the start actions run on every tick the flag is true.
MissionStarted_Level(m) == m

\* main.cpp:109.  Mission started edge, for this tick's mission flag m.
MissionStarted(m) == m /\ ~g_wasMissionActive

\* main.cpp:139.  Mission ended edge.
MissionEnded(m) == ~m /\ g_wasMissionActive

\* Mutant: only the start edge clears the vehicle state and the timers.
GateClears_StartOnly(m) == MissionStarted(m)

\* main.cpp:125-132, 162-169.  Does the gate clear the vehicle state and
\* reset the follow and teleport timers, for this tick's mission flag m.
GateClears(m) == MissionStarted(m) \/ MissionEnded(m)

\* Mutant: the end edge leaves the stay toggle as the mission left it.
RestoredStayToggle_Kept == g_stayToggle

\* main.cpp:146.  The stay toggle the end edge restores.
RestoredStayToggle == g_stayToggleBeforeMission

\* Mutant: the end edge marks the companion spawned whatever the respawn did.
RespawnSets_Always(ok) == TRUE

\* main.cpp:151-154.  Does the end edge set spawned, for SpawnTestPed's result.
RespawnSets(ok) == ok

\* main.cpp:101-175.  g_tickCount++, then the mission gate: the start edge
\* saves spawned / stay toggle, despawns and clears; the end edge restores
\* the stay toggle, respawns if the companion existed before, and clears.
MissionGate(E, maxTick) ==
    /\ pc = "gate"
    /\ g_tickCount < maxTick
    /\ \E m \in E.mission :
       \E load \in Read(E.load, MissionEnded(m)),
          create \in Read(E.create, MissionEnded(m)) :
        LET started == MissionStarted(m)
            ended   == MissionEnded(m)
            \* start edge (ended is then false)
            despawn == started /\ g_state.spawned
            gone    == DespawnTestPed(g_testPed, pedExists, pedFrozen)
            \* end edge
            respawn == ended /\ g_companionWasSpawnedBeforeMission
            made    == SpawnTestPed(g_testPed, pedExists, pedFrozen, load, create)
        IN  /\ g_tickCount' = (g_tickCount + 1) % TickModulus
            /\ isMissionActive' = m
            /\ g_wasMissionActive' = m
            /\ g_companionWasSpawnedBeforeMission' =
                   IF started THEN g_state.spawned
                   ELSE IF ended THEN FALSE
                   ELSE g_companionWasSpawnedBeforeMission
            /\ g_stayToggleBeforeMission' =
                   IF started THEN g_stayToggle ELSE g_stayToggleBeforeMission
            /\ g_stayToggle' =
                   IF ended THEN RestoredStayToggle ELSE g_stayToggle
            /\ g_state' =
                   IF despawn THEN [g_state EXCEPT !.spawned = FALSE]
                   ELSE IF respawn /\ RespawnSets(made.ok)
                   THEN [g_state EXCEPT !.spawned = TRUE]
                   ELSE g_state
            /\ g_testPed' = IF despawn THEN gone.ped
                            ELSE IF respawn THEN made.ped ELSE g_testPed
            /\ pedExists' = IF despawn THEN gone.exists
                            ELSE IF respawn THEN made.exists ELSE pedExists
            /\ pedFrozen' = IF despawn THEN gone.frozen
                            ELSE IF respawn THEN made.frozen ELSE pedFrozen
            /\ g_isRiding' = IF GateClears(m) THEN FALSE ELSE g_isRiding
            /\ g_ridingVehicleHandle' =
                   IF GateClears(m) THEN 0 ELSE g_ridingVehicleHandle
            /\ g_wasPlayerInVehicle' =
                   IF GateClears(m) THEN FALSE ELSE g_wasPlayerInVehicle
            /\ g_lastFollowTick' = IF GateClears(m) THEN 0 ELSE g_lastFollowTick
            /\ g_lastTeleportTick' =
                   IF GateClears(m) THEN 0 ELSE g_lastTeleportTick
            /\ g_isStayingActive' = IF started THEN FALSE ELSE g_isStayingActive
            /\ calls' = calls
                   \o (IF despawn THEN <<Call("gate", "DespawnTestPed", <<>>)>> ELSE <<>>)
                   \o (IF respawn
                       THEN <<Call("gate", "SpawnTestPed", <<IF made.ok THEN 1 ELSE 0>>)>>
                       ELSE <<>>)
    /\ pc' = "stayToggle"
    /\ UNCHANGED <<g_lastStaySnapTick, ctx, cmd, prev, playerPed, playerVeh>>

\* main.cpp:177-186.  F6 toggles Stay on/off.
StayToggle(E) ==
    /\ pc = "stayToggle"
    /\ \E down \in KeyStates(E, VK_F6) :
        LET pressed == IsKeyJustPressed(prev[VK_F6], down)
        IN  /\ prev' = [prev EXCEPT ![VK_F6] = down]
            /\ g_stayToggle' = IF pressed THEN ~g_stayToggle ELSE g_stayToggle
            /\ g_lastFollowTick' =
                   IF pressed /\ g_stayToggle THEN 0 ELSE g_lastFollowTick
    /\ pc' = "snapshot"
    /\ UNCHANGED <<g_state, g_tickCount, g_lastTeleportTick, g_isStayingActive,
                   g_lastStaySnapTick, g_wasMissionActive,
                   g_companionWasSpawnedBeforeMission, g_stayToggleBeforeMission,
                   g_isRiding, g_ridingVehicleHandle, g_wasPlayerInVehicle,
                   localVars, g_testPed, engineVars, calls>>

\* main.cpp:188-204.  The sensor snapshot, the spawned / stayEnabled mirrors
\* and the Mode Decision.
Snapshot(E) ==
    /\ pc = "snapshot"
    /\ \E kind \in E.player, veh \in E.veh, pos \in E.ppos :
       \E deadAnswer \in Read(BOOLEAN, kind = "gone") :
        LET handle == IF kind = "none" THEN 0 ELSE 1
            c == [tickCount       |-> g_tickCount,
                  playerExists    |-> PlayerExists(kind),
                  playerDead      |-> IsPlayerDead(kind, deadAnswer),
                  playerInVehicle |-> IsPlayerInVehicle(kind, veh),
                  playerPos       |-> GetPlayerPosition(handle, pos)]
            st == [g_state EXCEPT !.spawned = DoesTestPedExist(g_testPed, pedExists),
                                  !.stayEnabled = g_stayToggle]
            r == CoreTick(c, st)
        IN  /\ playerPed' = handle
            /\ playerVeh' = GetPlayerVehicleHandle(handle, veh)
            /\ ctx' = c
            /\ g_state' = r.state
            /\ cmd' = r.out
    /\ pc' = "ride"
    /\ UNCHANGED <<g_tickCount, g_lastFollowTick, g_lastTeleportTick, g_stayToggle,
                   g_isStayingActive, g_lastStaySnapTick, g_wasMissionActive,
                   g_companionWasSpawnedBeforeMission, g_stayToggleBeforeMission,
                   g_isRiding, g_ridingVehicleHandle, g_wasPlayerInVehicle,
                   isMissionActive, adapterVars, pedExists, pedFrozen, calls>>

\* Mutant: the chain tries the rear seats first.
ChosenSeat_RearFirst(veh, free) ==
    IF IsVehicleSeatFree(veh, SeatOrder[3], free) THEN SeatOrder[3]
    ELSE IF IsVehicleSeatFree(veh, SeatOrder[2], free) THEN SeatOrder[2]
    ELSE IF IsVehicleSeatFree(veh, SeatOrder[1], free) THEN SeatOrder[1]
    ELSE NO_SEAT

\* main.cpp:244-251.  The seat the if / else-if chain picks among the free
\* seats of vehicle veh: the first free one in SeatOrder, NO_SEAT if none.
ChosenSeat(veh, free) ==
    IF IsVehicleSeatFree(veh, SeatOrder[1], free) THEN SeatOrder[1]
    ELSE IF IsVehicleSeatFree(veh, SeatOrder[2], free) THEN SeatOrder[2]
    ELSE IF IsVehicleSeatFree(veh, SeatOrder[3], free) THEN SeatOrder[3]
    ELSE NO_SEAT

\* main.cpp:246-250.  The IsVehicleSeatFree queries the chain makes, in
\* order, each with its answer (1 = free): it stops at the first free seat.
SeatQueries(veh, free) ==
    LET Ask(i) == Call("ride", "IsVehicleSeatFree",
                       <<veh, SeatOrder[i],
                         IF IsVehicleSeatFree(veh, SeatOrder[i], free) THEN 1 ELSE 0>>)
    IN  IF IsVehicleSeatFree(veh, SeatOrder[1], free) THEN <<Ask(1)>>
        ELSE IF IsVehicleSeatFree(veh, SeatOrder[2], free) THEN <<Ask(1), Ask(2)>>
        ELSE <<Ask(1), Ask(2), Ask(3)>>

\* Mutant: a stay request never releases a riding companion.
RideStayRelease_Never == FALSE

\* main.cpp:212-220.  Stay requested while riding: release first.
RideStayRelease ==
    cmd.requestStay /\ g_isRiding /\ g_state.spawned

\* Mutant: the exit edge is never detected.
RideExitEdge_Never == FALSE

\* main.cpp:222-234.  The player just left the vehicle.
RideExitEdge ==
    g_wasPlayerInVehicle /\ ~ctx.playerInVehicle

\* Mutant: a seat is looked for on every tick in the vehicle.
Relatch_EveryTick(veh, riding, handle) == veh # 0

\* main.cpp:242.  Vehicle changed while riding, or none latched: for the
\* player's vehicle veh, the riding flag and the latched handle.
Relatch(veh, riding, handle) == veh # 0 /\ (~riding \/ veh # handle)

\* main.cpp:209-279.  Vehicle riding.
VehicleRide(E) ==
    /\ pc = "ride"
    /\ \E free \in Read(E.seats, ctx.playerInVehicle),
          survives \in Read(E.mount, ctx.playerInVehicle) :
        LET playerInVehicle == ctx.playerInVehicle
            \* 212-220
            release == RideStayRelease
            r1 == IF release THEN ClearedRide(0)
                  ELSE [riding |-> g_isRiding, handle |-> g_ridingVehicleHandle,
                        lastFollow |-> g_lastFollowTick]
            \* 222-234
            exitEdge == RideExitEdge
            exitTeleport == exitEdge /\ r1.riding /\ g_state.spawned
            r2 == IF exitEdge
                  THEN ClearedRide(IF exitTeleport THEN 0 ELSE r1.lastFollow)
                  ELSE r1
            frozen2 == IF release \/ exitTeleport
                       THEN TeleportTestPedNearPlayer(g_testPed, pedExists,
                                                      playerPed, pedFrozen)
                       ELSE pedFrozen
            \* 236-273
            tryRide == playerInVehicle /\ g_state.spawned /\ ~cmd.requestStay
            veh == playerVeh
            latch == tryRide /\ Relatch(veh, r2.riding, r2.handle)
            chosenSeat == ChosenSeat(veh, free)
            put == PutTestPedIntoVehicle(g_testPed, pedExists, frozen2, veh, survives)
            mount == latch /\ chosenSeat # NO_SEAT
            r3 == IF mount /\ put.ok
                  THEN [riding |-> TRUE, handle |-> veh, lastFollow |-> g_tickCount]
                  ELSE IF latch /\ chosenSeat = NO_SEAT
                  THEN [r2 EXCEPT !.riding = FALSE, !.handle = 0]
                  ELSE r2
        IN  /\ g_isRiding' = r3.riding
            /\ g_ridingVehicleHandle' = r3.handle
            /\ g_lastFollowTick' = r3.lastFollow
            /\ g_wasPlayerInVehicle' = playerInVehicle
            /\ g_state' = [g_state EXCEPT !.ridingVehicle = r3.riding]
            /\ pedFrozen' = IF mount THEN put.frozen ELSE frozen2
            /\ pedExists' = IF mount THEN put.exists ELSE pedExists
            /\ calls' = calls
                 \o (IF release
                     THEN <<Call("release", "TeleportTestPedNearPlayer", VecArg(NearOffset))>>
                     ELSE <<>>)
                 \o (IF exitTeleport
                     THEN <<Call("exit", "TeleportTestPedNearPlayer", VecArg(NearOffset))>>
                     ELSE <<>>)
                 \o (IF latch THEN SeatQueries(veh, free) ELSE <<>>)
                 \o (IF mount
                     THEN <<Call("ride", "PutTestPedIntoVehicle",
                                 <<veh, chosenSeat, IF put.ok THEN 1 ELSE 0>>)>>
                     ELSE <<>>)
    /\ pc' = "stay"
    /\ UNCHANGED <<g_tickCount, g_lastTeleportTick, g_stayToggle, g_isStayingActive,
                   g_lastStaySnapTick, g_wasMissionActive,
                   g_companionWasSpawnedBeforeMission, g_stayToggleBeforeMission,
                   localVars, adapterVars, playerPed, playerVeh>>


\* Mutant: the entry block runs on every stay tick.
StayEnters_Always == TRUE

\* main.cpp:287.  Enter stay once.
StayEnters == ~g_isStayingActive

\* Mutant: the exit block runs on every tick without a stay request.
StayExits_Always == TRUE

\* main.cpp:325.  Exit stay once.
StayExits == g_isStayingActive

\* Mutant: the re-snap check is due only after the interval is exceeded.
SnapDue_Strict(hasAnchor, lastSnap) ==
    hasAnchor /\ USub(g_tickCount, lastSnap) > STAY_SNAP_TICKS

\* main.cpp:307.  Is the periodic re-snap check due, for the anchor flag and
\* snap stamp left by the entry block.
SnapDue(hasAnchor, lastSnap) ==
    hasAnchor /\ USub(g_tickCount, lastSnap) >= STAY_SNAP_TICKS

\* main.cpp:314.  Has the companion drifted from the anchor.
Drifted(cur, anchor) == DistSq(cur, anchor) > DRIFT_SQ

\* main.cpp:284-338.  Stay execution: enter once, re-snap, exit once.
StayExecution(E) ==
    /\ pc = "stay"
    /\ \E pos \in Read(E.pedpos, cmd.requestStay) :
        LET cur == GetTestPedPosition(g_testPed, pedExists, pos)
            staying == cmd.requestStay /\ g_state.spawned
            enter == staying /\ StayEnters
            \* 287-304
            st1 == IF enter
                   THEN [g_state EXCEPT !.stayAnchor = cur, !.hasStayAnchor = TRUE]
                   ELSE g_state
            snap1 == IF enter THEN g_tickCount ELSE g_lastStaySnapTick
            \* 306-320
            check == staying /\ SnapDue(st1.hasStayAnchor, snap1)
            resnap == check /\ Drifted(cur, st1.stayAnchor)
            \* 322-338
            exit == ~staying /\ StayExits
        IN  /\ g_state' = IF exit THEN [g_state EXCEPT !.hasStayAnchor = FALSE] ELSE st1
            /\ g_lastStaySnapTick' =
                   IF exit THEN 0 ELSE IF check THEN g_tickCount ELSE snap1
            /\ g_isStayingActive' =
                   IF enter THEN TRUE ELSE IF exit THEN FALSE ELSE g_isStayingActive
            /\ g_lastFollowTick' = IF enter \/ exit THEN 0 ELSE g_lastFollowTick
            /\ pedFrozen' =
                   IF enter THEN FreezeTestPed(g_testPed, pedExists, pedFrozen, TRUE)
                   ELSE IF exit
                   THEN FreezeTestPed(g_testPed, pedExists, pedFrozen, FALSE)
                   ELSE pedFrozen
            /\ calls' = calls
                 \o (IF enter
                     THEN <<Call("enter", "GetTestPedPosition", VecArg(cur)),
                            Call("enter", "ClearTestPedTasks", <<>>),
                            Call("enter", "FreezeTestPed", <<1>>)>>
                     ELSE <<>>)
                 \o (IF check
                     THEN <<Call("snap", "GetTestPedPosition", VecArg(cur))>>
                     ELSE <<>>)
                 \o (IF resnap
                     THEN <<Call("snap", "SetTestPedPosition", VecArg(st1.stayAnchor))>>
                     ELSE <<>>)
                 \o (IF exit THEN <<Call("exitStay", "FreezeTestPed", <<0>>)>> ELSE <<>>)
    /\ pc' = "follow"
    /\ UNCHANGED <<g_tickCount, g_lastTeleportTick, g_stayToggle, g_wasMissionActive,
                   g_companionWasSpawnedBeforeMission, g_stayToggleBeforeMission,
                   g_isRiding, g_ridingVehicleHandle, g_wasPlayerInVehicle,
                   localVars, adapterVars, pedExists, playerPed, playerVeh>>

\* Mutant: any spawned companion on foot is told to follow.
FollowGate_WhenSpawned ==
    /\ g_state.spawned
    /\ ~g_isRiding
    /\ ~ctx.playerInVehicle

\* main.cpp:343.  The gating condition of the follow block.
FollowGate ==
    /\ ~cmd.requestStay
    /\ cmd.requestFollow
    /\ g_state.spawned
    /\ ~g_isRiding
    /\ ~ctx.playerInVehicle

\* Mutant: the refresh interval is met at exactly the interval.
TimeRefresh_AtLeast ==
    LET refresh == IF cmd.followRefreshTicks > 0
                   THEN cmd.followRefreshTicks ELSE FOLLOW_REFRESH_TICKS
    IN  USub(g_tickCount, g_lastFollowTick) >= refresh

\* main.cpp:345-346.  Has the refresh interval elapsed since the last issue.
TimeRefresh ==
    LET refresh == IF cmd.followRefreshTicks > 0
                   THEN cmd.followRefreshTicks ELSE FOLLOW_REFRESH_TICKS
    IN  USub(g_tickCount, g_lastFollowTick) > refresh

\* main.cpp:343-357.  Follow execution.
FollowExecution ==
    /\ pc = "follow"
    /\ LET issue == FollowGate /\ TimeRefresh
       IN  /\ g_lastFollowTick' =
                  IF ~FollowGate THEN 0
                  ELSE IF issue THEN g_tickCount ELSE g_lastFollowTick
           /\ pedFrozen' =
                  IF issue
                  THEN TaskFollowPlayer(g_testPed, pedExists, playerPed, pedFrozen)
                  ELSE pedFrozen
           /\ calls' = calls
                \o (IF issue
                    THEN <<Call("follow", "TaskFollowPlayer",
                                <<cmd.followDistance, cmd.followSpeed>>)>>
                    ELSE <<>>)
    /\ pc' = "autoTeleport"
    /\ UNCHANGED <<g_state, g_tickCount, g_lastTeleportTick, g_stayToggle,
                   g_isStayingActive, g_lastStaySnapTick, g_wasMissionActive,
                   g_companionWasSpawnedBeforeMission, g_stayToggleBeforeMission,
                   g_isRiding, g_ridingVehicleHandle, g_wasPlayerInVehicle,
                   localVars, adapterVars, pedExists, playerPed, playerVeh>>

\* Mutant: the companion is teleported to a player in a vehicle too.
TeleportGate_AnyVehicle ==
    ~cmd.requestStay /\ g_state.spawned

\* main.cpp:373.  The gating condition of the auto-teleport block.
TeleportGate ==
    ~cmd.requestStay /\ g_state.spawned /\ ~ctx.playerInVehicle

\* Mutant: the cooldown must be exceeded, not merely met.
CanTeleport_Strict ==
    USub(g_tickCount, g_lastTeleportTick) > TELEPORT_COOLDOWN_TICKS

\* main.cpp:379.  Has the teleport cooldown elapsed.
CanTeleport ==
    USub(g_tickCount, g_lastTeleportTick) >= TELEPORT_COOLDOWN_TICKS

\* main.cpp:378.  Is the companion too far from the player.
TooFar(playerPos, pedPos) == DistSq(playerPos, pedPos) > TELEPORT_DIST_SQ

\* main.cpp:373-396.  Auto-teleport if too far.
AutoTeleport(E) ==
    /\ pc = "autoTeleport"
    /\ \E pos \in Read(E.pedpos, TeleportGate) :
        LET playerPos == GetPlayerPosition(playerPed, ctx.playerPos)
            pedPos == GetTestPedPosition(g_testPed, pedExists, pos)
            teleport == TeleportGate /\ TooFar(playerPos, pedPos) /\ CanTeleport
        IN  /\ g_lastTeleportTick' =
                   IF ~TeleportGate THEN 0
                   ELSE IF teleport THEN g_tickCount ELSE g_lastTeleportTick
            /\ g_lastFollowTick' = IF teleport THEN 0 ELSE g_lastFollowTick
            /\ pedFrozen' =
                   IF teleport
                   THEN TeleportTestPedNearPlayer(g_testPed, pedExists,
                                                  playerPed, pedFrozen)
                   ELSE pedFrozen
            /\ calls' = calls
                 \o (IF TeleportGate
                     THEN <<Call("auto", "GetPlayerPosition", VecArg(playerPos)),
                            Call("auto", "GetTestPedPosition", VecArg(pedPos))>>
                     ELSE <<>>)
                 \o (IF teleport
                     THEN <<Call("auto", "TeleportTestPedNearPlayer", VecArg(NearOffset))>>
                     ELSE <<>>)
    /\ pc' = "toggle"
    /\ UNCHANGED <<g_state, g_tickCount, g_stayToggle, g_isStayingActive,
                   g_lastStaySnapTick, g_wasMissionActive,
                   g_companionWasSpawnedBeforeMission, g_stayToggleBeforeMission,
                   g_isRiding, g_ridingVehicleHandle, g_wasPlayerInVehicle,
                   localVars, adapterVars, pedExists, playerPed, playerVeh>>


\* main.cpp:398-419.  F7 toggles spawn / despawn.  A spawn that has to poll
\* for the model yields to the host, after which the player handle is
\* whatever the engine then reports.
SpawnToggle(E) ==
    /\ pc = "toggle"
    /\ \E down \in KeyStates(E, VK_F7) :
       \E load \in Read(E.load, down /\ ~g_state.spawned),
          create \in Read(E.create, down /\ ~g_state.spawned),
          kind \in Read(E.player, down /\ ~g_state.spawned) :
        LET pressed == IsKeyJustPressed(prev[VK_F7], down)
            spawn == pressed /\ ~g_state.spawned
            despawn == pressed /\ g_state.spawned
            made == SpawnTestPed(g_testPed, pedExists, pedFrozen, load, create)
            gone == DespawnTestPed(g_testPed, pedExists, pedFrozen)
            waited == spawn /\ SpawnWaits(g_testPed, pedExists, load)
        IN  /\ prev' = [prev EXCEPT ![VK_F7] = down]
            /\ g_state' =
                   IF spawn /\ made.ok THEN [g_state EXCEPT !.spawned = TRUE]
                   ELSE IF despawn THEN [g_state EXCEPT !.spawned = FALSE]
                   ELSE g_state
            /\ g_testPed' = IF spawn THEN made.ped
                            ELSE IF despawn THEN gone.ped ELSE g_testPed
            /\ pedExists' = IF spawn THEN made.exists
                            ELSE IF despawn THEN gone.exists ELSE pedExists
            /\ pedFrozen' = IF spawn THEN made.frozen
                            ELSE IF despawn THEN gone.frozen ELSE pedFrozen
            /\ playerPed' = IF waited THEN (IF kind = "none" THEN 0 ELSE 1)
                            ELSE playerPed
            /\ calls' = calls
                 \o (IF spawn
                     THEN <<Call("toggle", "SpawnTestPed", <<IF made.ok THEN 1 ELSE 0>>)>>
                     ELSE <<>>)
                 \o (IF despawn THEN <<Call("toggle", "DespawnTestPed", <<>>)>> ELSE <<>>)
    /\ pc' = "decision"
    /\ UNCHANGED <<g_tickCount, g_lastFollowTick, g_lastTeleportTick, g_stayToggle,
                   g_isStayingActive, g_lastStaySnapTick, g_wasMissionActive,
                   g_companionWasSpawnedBeforeMission, g_stayToggleBeforeMission,
                   g_isRiding, g_ridingVehicleHandle, g_wasPlayerInVehicle,
                   localVars, playerVeh>>

\* main.cpp:421-439.  Decision-driven spawn and despawn.
DecisionLifecycle(E) ==
    /\ pc = "decision"
    /\ \E load \in Read(E.load, cmd.requestSpawn),
          create \in Read(E.create, cmd.requestSpawn) :
        LET spawn == cmd.requestSpawn /\ ~g_state.spawned
            made == SpawnTestPed(g_testPed, pedExists, pedFrozen, load, create)
            spawned1 == IF spawn /\ made.ok THEN TRUE ELSE g_state.spawned
            w1 == IF spawn THEN made
                  ELSE [ok |-> FALSE, ped |-> g_testPed, exists |-> pedExists,
                        frozen |-> pedFrozen]
            despawn == cmd.requestDespawn /\ spawned1
            gone == DespawnTestPed(w1.ped, w1.exists, w1.frozen)
        IN  /\ g_state' = [g_state EXCEPT !.spawned = IF despawn THEN FALSE ELSE spawned1]
            /\ g_testPed' = IF despawn THEN gone.ped ELSE w1.ped
            /\ pedExists' = IF despawn THEN gone.exists ELSE w1.exists
            /\ pedFrozen' = IF despawn THEN gone.frozen ELSE w1.frozen
            /\ calls' = calls
                 \o (IF spawn
                     THEN <<Call("decision", "SpawnTestPed", <<IF made.ok THEN 1 ELSE 0>>)>>
                     ELSE <<>>)
                 \o (IF despawn
                     THEN <<Call("decision", "DespawnTestPed", <<>>)>>
                     ELSE <<>>)
    /\ pc' = "recall"
    /\ UNCHANGED <<g_tickCount, g_lastFollowTick, g_lastTeleportTick, g_stayToggle,
                   g_isStayingActive, g_lastStaySnapTick, g_wasMissionActive,
                   g_companionWasSpawnedBeforeMission, g_stayToggleBeforeMission,
                   g_isRiding, g_ridingVehicleHandle, g_wasPlayerInVehicle,
                   localVars, prev, playerPed, playerVeh>>

\* Mutant: the recall key is polled in suppressed ticks too.
RecallPolled_Always == TRUE

\* main.cpp:454.  The recall key is polled only when no mission is active.
RecallPolled == ~isMissionActive

\* main.cpp:486.  A recall stamps the teleport cooldown with the current tick.
RecallStamp == g_tickCount

\* main.cpp:454-491.  Manual recall (F5).  The key is polled only when no
\* mission is active (&& short-circuits).
ManualRecall(E) ==
    /\ pc = "recall"
    /\ \E down \in KeyStates(E, VK_F5) :
        LET polled == RecallPolled
            pressed == polled /\ IsKeyJustPressed(prev[VK_F5], down)
            recall == pressed /\ g_state.spawned
            leave == recall /\ (g_stayToggle \/ g_isStayingActive)
            unfreeze == leave /\ g_isStayingActive
            frozen1 == IF unfreeze
                       THEN FreezeTestPed(g_testPed, pedExists, pedFrozen, FALSE)
                       ELSE pedFrozen
        IN  /\ prev' = IF polled THEN [prev EXCEPT ![VK_F5] = down] ELSE prev
            /\ g_stayToggle' = IF leave THEN FALSE ELSE g_stayToggle
            /\ g_state' = IF leave
                          THEN [g_state EXCEPT !.stayEnabled = FALSE,
                                               !.hasStayAnchor = FALSE]
                          ELSE g_state
            /\ g_isStayingActive' = IF unfreeze THEN FALSE ELSE g_isStayingActive
            /\ g_lastFollowTick' = IF recall THEN 0 ELSE g_lastFollowTick
            /\ g_lastTeleportTick' = IF recall THEN RecallStamp ELSE g_lastTeleportTick
            /\ pedFrozen' =
                   IF recall
                   THEN TeleportTestPedNearPlayer(g_testPed, pedExists,
                                                  playerPed, frozen1)
                   ELSE pedFrozen
            /\ calls' = calls
                 \o (IF unfreeze THEN <<Call("recall", "FreezeTestPed", <<0>>)>> ELSE <<>>)
                 \o (IF recall
                     THEN <<Call("recall", "TeleportTestPedNearPlayer",
                                 VecArg(NearOffset))>>
                     ELSE <<>>)
    /\ pc' = "wait"
    /\ UNCHANGED <<g_tickCount, g_lastStaySnapTick, g_wasMissionActive,
                   g_companionWasSpawnedBeforeMission, g_stayToggleBeforeMission,
                   g_isRiding, g_ridingVehicleHandle, g_wasPlayerInVehicle,
                   localVars, g_testPed, pedExists, playerPed, playerVeh>>

\* main.cpp:519.  WAIT(0): the engine runs one frame, in which it may delete
\* the companion entity; then the loop body starts over with fresh locals.
Wait(E) ==
    /\ pc = "wait"
    /\ \E vanish \in E.vanish :
        LET remains == pedExists /\ ~vanish
        IN  /\ pedExists' = remains
            /\ pedFrozen' = (remains /\ pedFrozen)
    /\ isMissionActive' = FALSE
    /\ ctx' = InitContext
    /\ cmd' = InitCommands
    /\ playerPed' = 0
    /\ playerVeh' = 0
    /\ calls' = <<>>
    /\ pc' = "gate"
    /\ UNCHANGED <<progVars, adapterVars>>

\* --------------------------------------------------------------- observers

\* The calls of this tick made by block `site` to function `op`.
CallsOf(log, site, op) ==
    {i \in 1..Len(log) : log[i].site = site /\ log[i].op = op}

Made(log, site, op) == CallsOf(log, site, op) # {}

\* The follow directive was issued in this tick (main.cpp:350).
FollowIssued == Made(calls, "follow", "TaskFollowPlayer")

\* The calls the step appends to the log of the tick.
NewCalls ==
    IF pc = "wait" THEN <<>> ELSE SubSeq(calls', Len(calls) + 1, Len(calls'))

\* EngineAdapter.cpp:330-353, 388-419.  What a step of the loop does to the
\* vehicle the companion sits in: a warp that the entity survives seats it
\* (SET_PED_INTO_VEHICLE), a teleport that reaches the engine puts it on
\* foot at the offset from the player, an entity that is gone sits nowhere,
\* and between two frames the engine may take it out.
Seating(E) ==
    \E eject \in Read(E.eject, pc = "wait" /\ pedVeh # 0) :
        LET new == NewCalls
            warps == {i \in CallsOf(new, "ride", "PutTestPedIntoVehicle") :
                         new[i].arg[3] = 1}
            teleports == {i \in 1..Len(new) :
                             new[i].op = "TeleportTestPedNearPlayer"}
        IN  pedVeh' =
                IF ~DoesTestPedExist(g_testPed', pedExists') THEN 0
                ELSE IF warps # {} THEN new[CHOOSE i \in warps : TRUE].arg[1]
                ELSE IF teleports # {}
                        /\ TeleportReaches(g_testPed, pedExists, playerPed)
                THEN 0
                ELSE IF pc = "wait" /\ eject THEN 0
                ELSE pedVeh

\* How the observers move with a step of the loop.
Observe ==
    /\ runIssue' =
           IF pc = "follow"
           THEN IF ~FollowGate THEN 0
                ELSE IF Made(calls', "follow", "TaskFollowPlayer") THEN g_tickCount
                ELSE runIssue
           ELSE runIssue
    /\ cleanIssue' =
           IF pc = "follow"
           THEN IF ~FollowGate THEN 0
                ELSE IF Made(calls', "follow", "TaskFollowPlayer") THEN g_tickCount
                ELSE cleanIssue
           ELSE IF g_lastFollowTick' # g_lastFollowTick THEN 0
           ELSE cleanIssue
    /\ farSince' =
           IF pc = "autoTeleport"
           THEN IF /\ TeleportGate
                   /\ \E i \in CallsOf(calls', "auto", "GetTestPedPosition") :
                         \E j \in CallsOf(calls', "auto", "GetPlayerPosition") :
                            LET a == calls'[j].arg
                                b == calls'[i].arg
                            IN  TooFar(Vec3(a[1], a[2], a[3]), Vec3(b[1], b[2], b[3]))
                THEN IF farSince # 0 THEN farSince
                     ELSE IF g_lastTeleportTick = 0 THEN g_tickCount ELSE 0
                ELSE 0
           ELSE IF g_lastTeleportTick' # g_lastTeleportTick THEN 0
           ELSE farSince
    /\ stayRun' =
           IF pc = "stay"
           THEN IF cmd.requestStay /\ g_state.spawned
                THEN (IF stayRun < 2 THEN stayRun + 1 ELSE 2)
                ELSE 0
           ELSE stayRun
    /\ runAnchor' =
           IF pc = "stay"
           THEN IF cmd.requestStay /\ g_state.spawned
                THEN (IF stayRun = 0 THEN g_state'.stayAnchor ELSE runAnchor)
                ELSE ZeroVec
           ELSE runAnchor
    /\ lastToggle' =
           IF pc = "toggle"
           THEN IF \E i \in CallsOf(calls', "toggle", "SpawnTestPed") :
                       calls'[i].arg = <<1>>
                THEN "spawned"
                ELSE IF Made(calls', "toggle", "SpawnTestPed") THEN "failed"
                ELSE IF Made(calls', "toggle", "DespawnTestPed") THEN "despawned"
                ELSE "none"
           ELSE lastToggle
    /\ gateEdge' =
           IF pc = "gate"
           THEN IF isMissionActive' /\ ~g_wasMissionActive THEN "start"
                ELSE IF ~isMissionActive' /\ g_wasMissionActive THEN "end"
                ELSE "none"
           ELSE gateEdge
    /\ stayAtStart' =
           IF pc = "gate" /\ isMissionActive' /\ ~g_wasMissionActive
           THEN g_stayToggle ELSE stayAtStart
    /\ missionPresses' =
           IF pc = "gate" /\ isMissionActive' /\ ~g_wasMissionActive THEN 0
           ELSE IF pc = "stayToggle" /\ g_stayToggle' # g_stayToggle
                   /\ missionPresses < MaxPresses
           THEN missionPresses + 1
           ELSE missionPresses
    /\ gateHeld' = IF pc = "follow" THEN FollowGate ELSE gateHeld
    /\ LET issues == pc = "follow" /\ Made(calls', "follow", "TaskFollowPlayer")
       IN  /\ lastIssue' = IF issues THEN g_tickCount ELSE lastIssue
           /\ issueGap' = IF issues /\ lastIssue # 0
                          THEN g_tickCount - lastIssue ELSE issueGap
           /\ issueAfterReset' =
                  IF issues THEN g_lastFollowTick = 0 ELSE issueAfterReset
    /\ lastAuto' =
           IF pc = "autoTeleport" /\ Made(calls', "auto", "TeleportTestPedNearPlayer")
           THEN g_tickCount ELSE lastAuto
    /\ respawnFailed' =
           IF pc = "gate"
           THEN \/ respawnFailed
                \/ \E i \in CallsOf(calls', "gate", "SpawnTestPed") :
                       calls'[i].arg = <<0>>
           ELSE IF pc = "toggle" /\ prev'[VK_F7] /\ ~prev[VK_F7] THEN FALSE
           ELSE respawnFailed
    /\ wrapped' = (wrapped \/ g_tickCount' < g_tickCount)
    /\ UNCHANGED callVars

\* ------------------------------------------------- Mode Decision on its own

\* Contexts, states and prior contents of `out` that CompanionCore::Tick is
\* applied to.
CoreTicks == {0, 1, LOG_PERIOD_TICKS - 1, LOG_PERIOD_TICKS, 2 * LOG_PERIOD_TICKS}

CoreContexts ==
    [tickCount : CoreTicks, playerExists : BOOLEAN, playerDead : BOOLEAN,
     playerInVehicle : BOOLEAN, playerPos : PlayerPoints]

CoreStates ==
    [mode : {"Protection", "Stay", "Frenzy"}, spawned : BOOLEAN,
     stayEnabled : BOOLEAN, hasStayAnchor : BOOLEAN,
     stayAnchor : {ZeroVec, PedNear}, ridingVehicle : BOOLEAN]

CoreOuts ==
    {InitCommands,
     [InitCommands EXCEPT !.requestFollow = TRUE, !.requestStay = TRUE,
                          !.requestLog = TRUE, !.followRefreshTicks = 0]}

\* Any context, state and `out` the caller may hand to CompanionCore::Tick.
InitCore ==
    /\ g_state \in CoreStates
    /\ ctx \in CoreContexts
    /\ cmd \in CoreOuts
    /\ pc = "core"
    /\ g_tickCount = 0
    /\ g_lastFollowTick = 0
    /\ g_lastTeleportTick = 0
    /\ g_stayToggle = FALSE
    /\ g_isStayingActive = FALSE
    /\ g_lastStaySnapTick = 0
    /\ g_wasMissionActive = FALSE
    /\ g_companionWasSpawnedBeforeMission = FALSE
    /\ g_stayToggleBeforeMission = FALSE
    /\ g_isRiding = FALSE
    /\ g_ridingVehicleHandle = 0
    /\ g_wasPlayerInVehicle = FALSE
    /\ isMissionActive = FALSE
    /\ g_testPed = 0
    /\ prev = [k \in Keys |-> FALSE]
    /\ pedExists = FALSE
    /\ pedFrozen = FALSE
    /\ playerPed = 0
    /\ playerVeh = 0
    /\ pedVeh = 0
    /\ calls = <<>>
    /\ runIssue = 0
    /\ cleanIssue = 0
    /\ farSince = 0
    /\ stayRun = 0
    /\ runAnchor = ZeroVec
    /\ lastToggle = "none"
    /\ gateEdge = "none"
    /\ stayAtStart = FALSE
    /\ missionPresses = 0
    /\ gateHeld = FALSE
    /\ lastIssue = 0
    /\ issueGap = 0
    /\ issueAfterReset = FALSE
    /\ lastAuto = 0
    /\ respawnFailed = FALSE
    /\ wrapped = FALSE
    /\ spawnWait = NoWait
    /\ lastDown = [k \in Keys |-> FALSE]
    /\ leaked = 0

\* CompanionCore.h:63-92.  g_core.Tick(ctx, g_state, cmd).
CoreApply ==
    /\ pc = "core"
    /\ LET r == CoreTick(ctx, g_state)
       IN  /\ cmd' = r.out
           /\ g_state' = r.state
    /\ pc' = "coreDone"
    /\ UNCHANGED <<g_tickCount, g_lastFollowTick, g_lastTeleportTick,
                   g_stayToggle, g_isStayingActive, g_lastStaySnapTick,
                   g_wasMissionActive, g_companionWasSpawnedBeforeMission,
                   g_stayToggleBeforeMission, g_isRiding,
                   g_ridingVehicleHandle, g_wasPlayerInVehicle,
                   isMissionActive, ctx, adapterVars, engineVars, pedVeh, calls,
                   obsVars, callVars>>

\* ---------------------------------------------------------- specifications

\* One step of the loop under environment E, for runs of at most maxTick ticks.
Step(E, maxTick) ==
    \/ MissionGate(E, maxTick) /\ Seating(E) /\ Observe
    \/ StayToggle(E) /\ Seating(E) /\ Observe
    \/ Snapshot(E) /\ Seating(E) /\ Observe
    \/ VehicleRide(E) /\ Seating(E) /\ Observe
    \/ StayExecution(E) /\ Seating(E) /\ Observe
    \/ FollowExecution /\ Seating(E) /\ Observe
    \/ AutoTeleport(E) /\ Seating(E) /\ Observe
    \/ SpawnToggle(E) /\ Seating(E) /\ Observe
    \/ DecisionLifecycle(E) /\ Seating(E) /\ Observe
    \/ ManualRecall(E) /\ Seating(E) /\ Observe
    \/ Wait(E) /\ Seating(E) /\ Observe

\* The tick the loop body is running, or about to run.
CurTick == IF pc = "gate" THEN g_tickCount + 1 ELSE g_tickCount

\* Any environment, for MaxTick ticks from start-up.
Next == Step(Unrestricted, MaxTick)

Spec == Init /\ [][Next]_vars

\* Nothing for QuietTicks ticks, then any environment for MaxTick ticks:
\* the tick counter passes FOLLOW_REFRESH_TICKS.
NextLate == Step(Late(CurTick), QuietTicks + MaxTick)

SpecLate == Init /\ [][NextLate]_vars

\* A walk of MaxCooldownTick ticks.
NextCooldown == Step(Stroll(CurTick), MaxCooldownTick)

SpecCooldown == Init /\ [][NextCooldown]_vars

\* MaxRecoveryTick ticks with the companion far behind.
NextRecovery == Step(Stranded(CurTick), MaxRecoveryTick)

SpecRecovery == Init /\ [][NextRecovery]_vars


NextCommute == Step(Commute(CurTick), MaxCommuteTick)
SpecCommute == Init /\ [][NextCommute]_vars

NextRoaming == Step(Roaming(CurTick), MaxRoamingTick)
SpecRoaming == Init /\ [][NextRoaming]_vars

NextOutage == Step(Outage, MaxOutageTick)
SpecOutage == Init /\ [][NextOutage]_vars

NextVigil == Step(Vigil(CurTick), MaxVigilTick)
SpecVigil == Init /\ [][NextVigil]_vars

NextMission == Step(Campaign, MaxMissionTick)
SpecMission == Init /\ [][NextMission]_vars

\* The loop runs until WrapRunTicks ticks after the counter wrapped around.
NextWrap ==
    /\ ~(wrapped /\ pc = "gate" /\ g_tickCount >= WrapRunTicks)
    /\ Step(Rollover(CurTick), TickModulus)

SpecWrap == Init /\ [][NextWrap]_vars

NextCore == CoreApply
SpecCore == InitCore /\ [][NextCore]_vars

\* ------------------------------------------------------------------ claims

\* The end of a tick: the loop body has run and is about to yield.
TickEnd == pc = "wait"

BoolCount(b) == IF b THEN 1 ELSE 0

\* C1.  At the end of every tick at most one of these is true: hold-position
\* is active (g_isStayingActive), the follow directive was issued during
\* the tick, the companion is riding (g_isRiding).
C1_MutualExclusion ==
    TickEnd =>
        BoolCount(g_isStayingActive) + BoolCount(FollowIssued)
            + BoolCount(g_isRiding) <= 1

\* C1 witness: a tick in which the player left the vehicle, the riding
\* companion was teleported out, and the follow directive was issued.
C1_Witness ==
    /\ TickEnd
    /\ Made(calls, "exit", "TeleportTestPedNearPlayer")
    /\ FollowIssued
    /\ ~g_isRiding /\ ~g_isStayingActive

\* Calls of the executors downstream of the mission gate: the follow
\* directive, hold-position entry and re-snap, seat assignment, and the
\* auto-recovery teleport.
ExecutorCalled ==
    \/ Made(calls, "follow", "TaskFollowPlayer")
    \/ Made(calls, "enter", "FreezeTestPed")
    \/ Made(calls, "snap", "GetTestPedPosition")
    \/ Made(calls, "snap", "SetTestPedPosition")
    \/ Made(calls, "ride", "IsVehicleSeatFree")
    \/ Made(calls, "ride", "PutTestPedIntoVehicle")
    \/ Made(calls, "auto", "TeleportTestPedNearPlayer")

\* C2.  In every tick in which the mission flag is active every downstream
\* executor is skipped: no follow directive, no hold-position entry, freeze
\* or re-snap, no seat assignment and no auto-recovery teleport, whatever
\* the inputs (spawn-toggle and stay-toggle presses included).
C2_SuppressionSkipsExecutors ==
    (TickEnd /\ isMissionActive) => ~ExecutorCalled


\* The mission gate respawned the companion in this tick (the end edge of a
\* suppression whose start edge found it spawned, and SpawnTestPed succeeded).
GateRespawned ==
    \E i \in CallsOf(calls, "gate", "SpawnTestPed") : calls[i].arg = <<1>>

\* No key was down when this tick polled it, so no toggle or recall fired.
NoKeyDown == \A k \in Keys : ~prev[k]

AutoTeleported == Made(calls, "auto", "TeleportTestPedNearPlayer")

\* The end-edge tick of a suppression round trip: the start edge found the
\* companion spawned with the stay toggle off, and the respawn succeeded.
RoundTripTick == GateRespawned /\ ~g_stayToggleBeforeMission

\* C3 as stated.  After the end-edge tick of a round trip (no key pressed
\* in it) the companion is spawned, stayEnabled is false and the last-follow
\* tick is 0, the directive being left for the next tick.
C3_RoundTripAsStated ==
    (TickEnd /\ RoundTripTick /\ NoKeyDown) =>
        /\ g_state.spawned
        /\ ~g_state.stayEnabled
        /\ g_lastFollowTick = 0

\* C3.  Right after the gate handles the end edge of a round trip the
\* companion is spawned, the stay toggle is false and the last-follow tick
\* is 0.  With no key pressed in that tick, at its end the companion is
\* still spawned with stayEnabled false, and the follow directive is issued
\* in that same tick whenever Mode Decision requests follow, the player is
\* on foot and the tick counter exceeds the refresh interval; the
\* last-follow tick is then the current tick (0 if the directive was not
\* issued or the auto-teleport reset it).
C3_RoundTrip ==
    /\ (pc = "stayToggle" /\ RoundTripTick) =>
           /\ g_state.spawned
           /\ ~g_stayToggle
           /\ g_lastFollowTick = 0
    /\ (TickEnd /\ RoundTripTick /\ NoKeyDown) =>
           /\ g_state.spawned
           /\ ~g_state.stayEnabled
           /\ g_lastFollowTick =
                  IF FollowIssued /\ ~AutoTeleported THEN g_tickCount ELSE 0
           /\ (cmd.requestFollow /\ ~ctx.playerInVehicle
                   /\ g_tickCount > FOLLOW_REFRESH_TICKS) => FollowIssued

\* C3 witness: the end-edge tick of a round trip, in which the directive
\* was issued.
C3_Witness ==
    /\ TickEnd /\ RoundTripTick /\ NoKeyDown
    /\ FollowIssued
    /\ g_lastFollowTick = g_tickCount

\* The follow block issues the directive in this step.
IssuesFollow == pc = "follow" /\ Made(calls', "follow", "TaskFollowPlayer")

\* C4 as stated.  The directive is issued only when more than the refresh
\* interval has passed since the last-follow tick, which it stamps; so while
\* the gating condition stays true on consecutive ticks, two issuances are
\* never 60 or fewer ticks apart.
C4_CooldownAsStated ==
    [][(IssuesFollow /\ runIssue # 0) =>
           g_tickCount - runIssue > FOLLOW_REFRESH_TICKS]_vars

\* C4.  The directive is issued only when current tick minus last-follow
\* tick is strictly greater than the refresh interval, and issuing stamps
\* the last-follow tick with the current tick; so while the gating
\* condition stays true on consecutive ticks and no other block (manual
\* recall, auto-teleport, mission gate, stay toggle) rewrites the
\* last-follow tick in between, two issuances are more than 60 ticks apart.
C4_Cooldown ==
    /\ [][IssuesFollow =>
              /\ USub(g_tickCount, g_lastFollowTick) > FOLLOW_REFRESH_TICKS
              /\ g_lastFollowTick' = g_tickCount]_vars
    /\ [][(IssuesFollow /\ cleanIssue # 0) =>
              g_tickCount - cleanIssue > FOLLOW_REFRESH_TICKS]_vars

\* C4 witness: a second issuance in a run in which the gating condition
\* held throughout and nothing else touched the last-follow tick.
C4_Witness ==
    /\ pc = "autoTeleport"
    /\ FollowIssued
    /\ cleanIssue = g_tickCount
    /\ g_tickCount = 2 * (FOLLOW_REFRESH_TICKS + 1)
    /\ g_lastTeleportTick = 0

\* C5.  When the auto-teleport gating condition and the too-far condition
\* hold on every tick from the first tick the companion is seen, with the
\* last-teleport tick 0 at that point, no auto-teleport happens before tick
\* 300, one happens at tick 300 and stamps 300, and the next comes at tick
\* 600 and no earlier.
C5_RecoveryWindow ==
    (pc = "toggle" /\ farSince \in 1..TELEPORT_COOLDOWN_TICKS) =>
        /\ AutoTeleported <=> (g_tickCount % TELEPORT_COOLDOWN_TICKS = 0)
        /\ g_lastTeleportTick =
               g_tickCount - (g_tickCount % TELEPORT_COOLDOWN_TICKS)

\* C5 witness: the second auto-teleport of such a run, at tick 600.
C5_Witness ==
    /\ pc = "toggle"
    /\ farSince \in 1..TELEPORT_COOLDOWN_TICKS
    /\ AutoTeleported
    /\ g_tickCount = 2 * TELEPORT_COOLDOWN_TICKS
    /\ g_lastTeleportTick = g_tickCount


\* The preconditions of Mode Decision: spawned, player exists and is alive.
CoreActive == g_state.spawned /\ ctx.playerExists /\ ~ctx.playerDead

\* C6.  CompanionCore::Tick is a pure function of (context, state): with
\* the companion spawned and the player existing and alive it emits exactly
\* one of stay-request (stayEnabled) or follow-request with distance 2.0,
\* speed 3.0 and refresh 60 (not stayEnabled); if a precondition fails it
\* emits neither; the two requests are never both true, whatever `out` held
\* before; and CompanionState is left unchanged.
C6_ModeDecision ==
    /\ [](pc = "coreDone" =>
            /\ ~(cmd.requestStay /\ cmd.requestFollow)
            /\ cmd.requestStay <=> (CoreActive /\ g_state.stayEnabled)
            /\ cmd.requestFollow <=> (CoreActive /\ ~g_state.stayEnabled)
            /\ cmd.followDistance = 20
            /\ cmd.followSpeed = 30
            /\ cmd.followRefreshTicks = 60
            /\ ~cmd.requestSpawn /\ ~cmd.requestDespawn)
    /\ [][pc = "core" => (g_state' = g_state /\ ctx' = ctx)]_vars

\* C6 witness: Mode Decision has run for a dead player with the companion
\* spawned and stay enabled, over an `out` that held both requests.
C6_Witness ==
    /\ pc = "coreDone"
    /\ g_state.spawned /\ g_state.stayEnabled
    /\ ctx.playerExists /\ ctx.playerDead
    /\ ~cmd.requestStay /\ ~cmd.requestFollow


\* The stay block finds stay requested and the companion spawned.
StayTick == cmd.requestStay /\ g_state.spawned

EnteredStay == Made(calls, "enter", "FreezeTestPed")

\* C7 as stated.  Over any run of consecutive ticks in which stay is
\* requested and the companion is spawned, the anchor is captured and the
\* companion frozen only on the first tick; on every later tick of the run
\* the entry neither recaptures nor re-freezes and the anchor is unchanged.
C7_EntryOncePerRunAsStated ==
    (pc = "follow" /\ stayRun >= 2) =>
        /\ ~EnteredStay
        /\ g_state.stayAnchor = runAnchor

\* C7.  Hold-position entry is idempotent.  On the first tick of a run of
\* ticks in which stay is requested and the companion is spawned, the
\* anchor is captured and the companion frozen.  On every tick of the run
\* on which hold-position is already active the entry neither recaptures
\* the anchor nor re-freezes, and the anchor changes on no step other than
\* an entry.  Within a run hold-position stops being active only through
\* the manual recall or the mission gate, after which the next stay tick
\* enters again.
C7_EntryIdempotent ==
    /\ [][(pc = "stay" /\ StayTick /\ stayRun = 0) =>
              /\ Made(calls', "enter", "GetTestPedPosition")
              /\ Made(calls', "enter", "FreezeTestPed")
              /\ g_isStayingActive'
              /\ g_state'.hasStayAnchor]_vars
    /\ [][(pc = "stay" /\ StayTick /\ g_isStayingActive) =>
              /\ ~Made(calls', "enter", "GetTestPedPosition")
              /\ ~Made(calls', "enter", "FreezeTestPed")
              /\ g_state'.stayAnchor = g_state.stayAnchor
              /\ pedFrozen' = pedFrozen
              /\ g_isStayingActive']_vars
    /\ [][g_state'.stayAnchor # g_state.stayAnchor =>
              (pc = "stay" /\ StayTick /\ ~g_isStayingActive)]_vars
    /\ [][(stayRun >= 1 /\ pc # "stay" /\ g_isStayingActive
               /\ ~g_isStayingActive') =>
              pc \in {"recall", "gate"}]_vars

\* C7 witness: the second tick of a run, hold-position still active, the
\* stay block done without entering again.
C7_Witness ==
    /\ pc = "follow"
    /\ stayRun = 2
    /\ g_isStayingActive
    /\ ~EnteredStay
    /\ g_state.hasStayAnchor
    /\ g_state.stayAnchor = runAnchor

\* The seats IsVehicleSeatFree was asked about in this tick, in call order.
SeatCalls == CallsOf(calls, "ride", "IsVehicleSeatFree")

\* C8.  When a seat assignment is attempted the seat chosen is the first
\* free seat in the order front passenger (0), rear-left (1), rear-right
\* (2); the driver seat (-1) is never chosen; with only the rear-right seat
\* free the companion is put in rear-right; and on a successful mount
\* riding is true and the latched handle is the player's vehicle.
C8_SeatPriority ==
    /\ \A i \in CallsOf(calls, "ride", "PutTestPedIntoVehicle") :
          LET veh == calls[i].arg[1]
              seat == calls[i].arg[2]
              ok == calls[i].arg[3]
          IN  /\ seat \in {0, 1, 2}
              /\ veh = playerVeh /\ veh # 0
              /\ Cardinality(SeatCalls) = seat + 1
              /\ \A q \in SeatCalls :
                    /\ q < i
                    /\ calls[q].arg[1] = veh
                    /\ calls[q].arg[2] \in 0..seat
                    /\ (calls[q].arg[3] = 1) <=> (calls[q].arg[2] = seat)
              /\ \A q1, q2 \in SeatCalls :
                    q1 < q2 => calls[q1].arg[2] < calls[q2].arg[2]
              /\ ok = 1 => (g_isRiding /\ g_ridingVehicleHandle = veh)
    /\ (SeatCalls # {} /\ ~Made(calls, "ride", "PutTestPedIntoVehicle")) =>
          /\ Cardinality(SeatCalls) = 3
          /\ \A q \in SeatCalls : calls[q].arg[3] = 0
          /\ ~g_isRiding /\ g_ridingVehicleHandle = 0

\* C8 witness: front passenger and rear-left taken, rear-right free; the
\* companion was put in rear-right and is riding in the player's vehicle.
C8_Witness ==
    /\ pc = "stay"
    /\ \E i \in CallsOf(calls, "ride", "PutTestPedIntoVehicle") :
          calls[i].arg = <<playerVeh, 2, 1>>
    /\ Cardinality(SeatCalls) = 3
    /\ g_isRiding /\ g_ridingVehicleHandle = playerVeh

ExitTeleported == Made(calls, "exit", "TeleportTestPedNearPlayer")

Recalled == Made(calls, "recall", "TeleportTestPedNearPlayer")

C10_ReleaseBeforeStay ==
    /\ [][(pc = "ride" /\ cmd.requestStay /\ g_isRiding /\ g_state.spawned) =>
              /\ Made(calls', "release", "TeleportTestPedNearPlayer")
              /\ ~g_isRiding'
              /\ g_ridingVehicleHandle' = 0
              /\ g_lastFollowTick' = 0]_vars
    /\ [][(pc = "stay" /\ Made(calls', "enter", "FreezeTestPed")) =>
              ~g_isRiding /\ ~g_isRiding']_vars
    /\ [](\A i \in CallsOf(calls, "enter", "FreezeTestPed") :
             \A j \in CallsOf(calls, "release", "TeleportTestPedNearPlayer") :
                j < i)

\* C10 witness: in one tick the riding companion was released and then
\* entered hold-position.
C10_Witness ==
    /\ pc = "follow"
    /\ Made(calls, "release", "TeleportTestPedNearPlayer")
    /\ EnteredStay
    /\ g_isStayingActive
    /\ ~g_isRiding


\* The F7 block's spawn attempt of this tick succeeded.
ToggleSpawnedOk ==
    \E i \in CallsOf(calls, "toggle", "SpawnTestPed") : calls[i].arg = <<1>>

\* C11.  Scenario A: starting not spawned, a spawn-toggle key edge whose
\* spawn succeeds makes spawned true by the end of that tick; and on the
\* next tick, the companion entity still being there, Mode Decision with
\* the player present and alive and stayEnabled false emits a
\* follow-request with distance 2.0, speed 3.0 and refresh interval 60.
C11_ScenarioA ==
    /\ [][(pc = "toggle" /\ ~g_state.spawned
               /\ \E i \in CallsOf(calls', "toggle", "SpawnTestPed") :
                     calls'[i].arg = <<1>>) =>
              g_state'.spawned]_vars
    /\ []((TickEnd /\ ToggleSpawnedOk) => g_state.spawned)
    /\ []((pc = "ride" /\ lastToggle = "spawned" /\ pedExists
              /\ ctx.playerExists /\ ~ctx.playerDead /\ ~g_stayToggle) =>
             /\ cmd.requestFollow
             /\ ~cmd.requestStay
             /\ cmd.followDistance = 20
             /\ cmd.followSpeed = 30
             /\ cmd.followRefreshTicks = 60)

\* C11 witness: the tick after a successful toggle spawn, Mode Decision
\* done for a live player on foot, follow requested.
C11_Witness ==
    /\ pc = "ride"
    /\ lastToggle = "spawned"
    /\ g_tickCount = 2
    /\ pedExists
    /\ ctx.playerExists /\ ~ctx.playerDead /\ ~ctx.playerInVehicle
    /\ ~g_stayToggle
    /\ cmd.requestFollow


\* C12 as stated.  A manual recall leaves, at the end of its tick,
\* stayEnabled false, hold-position inactive, hasAnchor false, the companion
\* unfrozen and teleported near the player, the last-follow tick 0 and the
\* last-teleport tick the current tick, whether or not it was staying.
C12_RecallAsStated ==
    (TickEnd /\ Recalled) =>
        /\ ~g_state.stayEnabled /\ ~g_stayToggle
        /\ ~g_isStayingActive
        /\ ~g_state.hasStayAnchor
        /\ ~pedFrozen
        /\ g_lastFollowTick = 0
        /\ g_lastTeleportTick = g_tickCount


\* C13.  A recall step in a tick where suppression is active, or where the
\* companion is not spawned, is a no-op whatever the recall key does: no
\* teleport and no unfreeze is issued, and stayEnabled, the hold state,
\* hasAnchor, the last-follow tick and the last-teleport tick are left as
\* they were.
C13_RecallNoOp ==
    [][(pc = "recall" /\ (isMissionActive \/ ~g_state.spawned)) =>
           /\ calls' = calls
           /\ g_stayToggle' = g_stayToggle
           /\ g_state' = g_state
           /\ g_isStayingActive' = g_isStayingActive
           /\ g_lastFollowTick' = g_lastFollowTick
           /\ g_lastTeleportTick' = g_lastTeleportTick
           /\ pedFrozen' = pedFrozen]_vars

\* C13 witness: the recall key went down in the first tick, with no
\* mission and no companion, and nothing was issued.
C13_Witness ==
    /\ TickEnd
    /\ g_tickCount = 1
    /\ prev[VK_F5]
    /\ ~isMissionActive
    /\ ~g_state.spawned
    /\ ~Recalled
    /\ g_lastTeleportTick = 0


\* Spawn and despawn calls of the Lifecycle Toggle (the F7 block and the
\* decision-driven block after it) in call log `log`.
LifecycleSpawns(log) ==
    CallsOf(log, "toggle", "SpawnTestPed") \cup CallsOf(log, "decision", "SpawnTestPed")

LifecycleDespawns(log) ==
    CallsOf(log, "toggle", "DespawnTestPed") \cup CallsOf(log, "decision", "DespawnTestPed")

\* C14.  A spawn-toggle key edge with spawned false triggers exactly one
\* spawn attempt in that tick, and spawned becomes true iff it succeeds;
\* with spawned true the edge triggers exactly one despawn and spawned
\* becomes false; without a key edge the Lifecycle Toggle attempts nothing
\* (so a failed spawn is not retried until a new edge); and it never issues
\* both a spawn and a despawn in one tick.
C14_LifecycleToggle ==
    /\ [][pc = "toggle" =>
              LET edge == prev'[VK_F7] /\ ~prev[VK_F7]
                  sp == CallsOf(calls', "toggle", "SpawnTestPed")
                  de == CallsOf(calls', "toggle", "DespawnTestPed")
              IN  /\ (edge /\ ~g_state.spawned) =>
                         /\ Cardinality(sp) = 1 /\ de = {}
                         /\ g_state'.spawned <=>
                                (\A i \in sp : calls'[i].arg = <<1>>)
                  /\ (edge /\ g_state.spawned) =>
                         /\ Cardinality(de) = 1 /\ sp = {}
                         /\ ~g_state'.spawned
                  /\ ~edge => (sp = {} /\ de = {} /\ g_state' = g_state)]_vars
    /\ [](TickEnd =>
             /\ Cardinality(LifecycleSpawns(calls))
                    + Cardinality(LifecycleDespawns(calls)) <= 1
             /\ LifecycleSpawns(calls) # {} => (g_state.spawned <=> ToggleSpawnedOk)
             /\ LifecycleDespawns(calls) # {} => ~g_state.spawned)

\* C14 witness: the F7 block's one spawn attempt of this tick failed, and
\* spawned is still false at the end of the tick.
C14_Witness ==
    /\ TickEnd
    /\ lastToggle = "failed"
    /\ Cardinality(LifecycleSpawns(calls)) = 1
    /\ LifecycleDespawns(calls) = {}
    /\ ~g_state.spawned


\* C15.  The suppression-start actions run on exactly the ticks where the
\* suppression flag is true and was false on the previous tick: on such a
\* tick MissionMemory is set to the current spawned and stayEnabled values
\* and, if spawned, the companion is despawned and spawned cleared; on
\* ticks where the flag stays true the memory is not overwritten and the
\* gate issues no despawn; and the gate never despawns on other ticks.
C15_StartEdge ==
    [][pc = "gate" =>
           LET started == isMissionActive' /\ ~g_wasMissionActive
               despawned == Made(calls', "gate", "DespawnTestPed")
           IN  /\ started =>
                      /\ g_companionWasSpawnedBeforeMission' = g_state.spawned
                      /\ g_stayToggleBeforeMission' = g_state.stayEnabled
                      /\ g_stayToggleBeforeMission' = g_stayToggle
                      /\ despawned <=> g_state.spawned
                      /\ ~g_state'.spawned
                      /\ g_state.spawned => (~pedExists' /\ g_testPed' = 0)
               /\ (isMissionActive' /\ g_wasMissionActive) =>
                      /\ g_companionWasSpawnedBeforeMission'
                             = g_companionWasSpawnedBeforeMission
                      /\ g_stayToggleBeforeMission' = g_stayToggleBeforeMission
                      /\ ~despawned
                      /\ g_state' = g_state
               /\ ~isMissionActive' => ~despawned]_vars

\* C15 witness: the gate has just handled a start edge that found the
\* companion spawned with stay enabled: memory set, companion despawned.
C15_Witness ==
    /\ pc = "stayToggle"
    /\ isMissionActive
    /\ Made(calls, "gate", "DespawnTestPed")
    /\ g_companionWasSpawnedBeforeMission
    /\ g_stayToggleBeforeMission
    /\ ~g_state.spawned


\* C16.  Whatever stay-toggle presses are made while suppression is
\* active, immediately after the mission gate handles the suppression-end
\* edge the stay toggle equals the value it had when the matching
\* suppression-start edge was handled.
C16_StayRestored ==
    (pc = "stayToggle" /\ gateEdge = "end") => g_stayToggle = stayAtStart

\* C16 witness: the end edge has just been handled after one stay-toggle
\* press made during the mission, and the toggle is back on.
C16_Witness ==
    /\ pc = "stayToggle"
    /\ gateEdge = "end"
    /\ missionPresses = 1
    /\ stayAtStart
    /\ g_stayToggle


\* C17 as stated.  Whenever the follow gating condition is false in a tick
\* the last-follow tick is 0 after the Follow Executor; and on the first
\* later tick where the gating condition holds the follow directive is
\* issued in that tick, for every value of the tick counter.
C17_ImmediateReissueAsStated ==
    /\ [][(pc = "follow" /\ ~FollowGate) => g_lastFollowTick' = 0]_vars
    /\ [][(pc = "follow" /\ FollowGate /\ ~gateHeld) =>
              Made(calls', "follow", "TaskFollowPlayer")]_vars


\* C18 as stated.  In every execution any two consecutive issuances of the
\* follow directive are more than 60 ticks apart, also when the follow
\* gating condition became false and true again between them.
C18_RateLimitAsStated == issueGap # 0 => issueGap > FOLLOW_REFRESH_TICKS

\* C18.  Two consecutive issuances of the follow directive are more than
\* 60 ticks apart unless the last-follow tick was reset to 0 between them
\* (the gating condition was false in some tick, or another block reset
\* it): an issuance always finds the last-follow tick either 0 or equal to
\* the tick of the previous issuance, and in the latter case more than 60
\* ticks have passed.
C18_RateLimit ==
    /\ []((issueGap # 0 /\ ~issueAfterReset) =>
              issueGap > FOLLOW_REFRESH_TICKS)
    /\ [][IssuesFollow =>
              /\ g_lastFollowTick \in {0, lastIssue}
              /\ g_tickCount > FOLLOW_REFRESH_TICKS]_vars

\* C18 witness: the player got into the vehicle and out again after an
\* issuance, and the directive was issued again within the interval.
C18_Witness ==
    /\ pc = "autoTeleport"
    /\ FollowIssued
    /\ issueAfterReset
    /\ issueGap # 0
    /\ issueGap <= FOLLOW_REFRESH_TICKS


\* The auto-teleport block teleports in this step.
AutoTeleports ==
    pc = "autoTeleport" /\ Made(calls', "auto", "TeleportTestPedNearPlayer")

\* The positions the auto-teleport block read in this tick are further
\* apart than the threshold.
AutoReadFar ==
    \E i \in CallsOf(calls, "auto", "GetPlayerPosition") :
       \E j \in CallsOf(calls, "auto", "GetTestPedPosition") :
          LET a == calls[i].arg
              b == calls[j].arg
          IN  DistSq(Vec3(a[1], a[2], a[3]), Vec3(b[1], b[2], b[3]))
                  > TELEPORT_DIST_SQ

\* C19 as stated.  Auto-Recovery teleports only if at least 300 ticks have
\* elapsed since the previous Auto-Recovery teleport.
C19_AutoRecoveryAsStated ==
    [][(AutoTeleports /\ lastAuto # 0) =>
           g_tickCount - lastAuto >= TELEPORT_COOLDOWN_TICKS]_vars

\* C19.  Auto-Recovery teleports the companion in a tick only if stay is
\* not requested (and hold-position is inactive), it is spawned, the player
\* is not in a vehicle, the distance exceeds the threshold, and current
\* tick minus last-teleport tick is at least 300; it then sets last-teleport
\* to the current tick and last-follow to 0.  The last-teleport tick is the
\* tick of the previous auto-teleport only until a tick whose gating
\* condition is false (or a mission edge) resets it to 0: a teleport less
\* than 300 ticks after the previous one finds it 0.
C19_AutoRecovery ==
    /\ [][AutoTeleports =>
              /\ ~cmd.requestStay /\ ~g_isStayingActive
              /\ g_state.spawned
              /\ ~ctx.playerInVehicle
              /\ USub(g_tickCount, g_lastTeleportTick) >= TELEPORT_COOLDOWN_TICKS
              /\ g_lastTeleportTick' = g_tickCount
              /\ g_lastFollowTick' = 0]_vars
    /\ [][(AutoTeleports /\ lastAuto # 0
               /\ g_tickCount - lastAuto < TELEPORT_COOLDOWN_TICKS) =>
              g_lastTeleportTick = 0]_vars
    /\ []((pc = "toggle" /\ AutoTeleported) => AutoReadFar)

\* C19 witness: an auto-teleport after the first cooldown has passed, with
\* both tick stamps set.
C19_Witness ==
    /\ pc = "toggle"
    /\ AutoTeleported
    /\ lastAuto = g_tickCount
    /\ g_tickCount > TELEPORT_COOLDOWN_TICKS
    /\ g_tickCount < 2 * TELEPORT_COOLDOWN_TICKS
    /\ g_lastTeleportTick = g_tickCount
    /\ g_lastFollowTick = 0


\* C20 as stated.  In no tick are both an Auto-Recovery teleport and a
\* Manual Recall teleport issued.
C20_NoDoubleTeleportAsStated ==
    TickEnd => ~(AutoTeleported /\ Recalled)

\* The mission gate has just handled a start edge or an end edge.
GateHandledEdge == pc = "stayToggle" /\ gateEdge # "none"

\* C21 as stated.  Immediately after the gate handles a start edge or an
\* end edge the riding state is cleared and every cooldown timer is 0: the
\* last-follow tick, the last-teleport tick and the last-anchor-resnap tick.
C21_GateClearsAsStated ==
    GateHandledEdge =>
        /\ ~g_isRiding /\ g_ridingVehicleHandle = 0 /\ ~g_wasPlayerInVehicle
        /\ g_lastFollowTick = 0
        /\ g_lastTeleportTick = 0
        /\ g_lastStaySnapTick = 0

\* C21.  When the gate handles a start edge or an end edge it clears the
\* riding state (riding false, vehicle handle 0, previous player-in-vehicle
\* false) and sets the last-follow tick and the last-teleport tick to 0; it
\* leaves the last-anchor-resnap tick as it was.
C21_GateClears ==
    [][(pc = "gate" /\ isMissionActive' # g_wasMissionActive) =>
           /\ ~g_isRiding' /\ g_ridingVehicleHandle' = 0 /\ ~g_wasPlayerInVehicle'
           /\ g_lastFollowTick' = 0
           /\ g_lastTeleportTick' = 0
           /\ g_lastStaySnapTick' = g_lastStaySnapTick]_vars

\* C21 witness: right after the gate handled an end edge, with the riding
\* state and the two timers cleared and a resnap stamp left from a
\* hold-position entry made while the mission was on.
C21_Witness ==
    /\ GateHandledEdge
    /\ gateEdge = "end"
    /\ ~g_isRiding /\ g_ridingVehicleHandle = 0 /\ ~g_wasPlayerInVehicle
    /\ g_lastFollowTick = 0
    /\ g_lastTeleportTick = 0
    /\ g_lastStaySnapTick # 0


\* C22 as stated.  Once the respawn attempted at an end edge has failed,
\* and until a spawn-toggle key edge, spawned is false.
C22_RespawnFailureAsStated ==
    respawnFailed => ~g_state.spawned


\* The gate's respawn attempt fails in this step.
RespawnFails ==
    /\ pc = "gate"
    /\ \E i \in CallsOf(calls', "gate", "SpawnTestPed") : calls'[i].arg = <<0>>

\* C22.  If the respawn attempted at the end edge fails, the gate leaves
\* spawned as it was and clears the saved-spawned memory; spawned is false
\* from that tick's sensor snapshot on (before it, it is still true when a
\* companion spawned by the toggle during the mission has been deleted by
\* the engine), and until a spawn-toggle key edge no spawn is attempted
\* again, neither by a later end edge nor by the decision block.
C22_RespawnFailure ==
    /\ [][RespawnFails =>
              /\ g_state'.spawned = g_state.spawned
              /\ ~g_companionWasSpawnedBeforeMission']_vars
    /\ []((respawnFailed /\ pc \notin {"stayToggle", "snapshot"}) =>
              ~g_state.spawned)
    /\ [][(respawnFailed /\ pc \in {"gate", "decision"}) =>
              /\ CallsOf(calls', "gate", "SpawnTestPed")
                     = CallsOf(calls, "gate", "SpawnTestPed")
              /\ ~Made(calls', "decision", "SpawnTestPed")]_vars

\* C22 witness: a later end edge, handled with no spawn-toggle key edge
\* since the failed respawn: the gate has made no call.
C22_Witness ==
    /\ pc = "stayToggle"
    /\ gateEdge = "end"
    /\ respawnFailed
    /\ calls = <<>>
    /\ ~g_state.spawned
    /\ ~g_companionWasSpawnedBeforeMission


\* The ride block tries to seat the companion: the player is in a vehicle,
\* the companion is spawned and stay is not requested (main.cpp:237).
TryRide == ctx.playerInVehicle /\ g_state.spawned /\ ~cmd.requestStay

\* C23 as stated.  On a tick where the player occupies a vehicle, the
\* companion is spawned and stay is not requested, a seat assignment is
\* attempted (the seats are queried) if the companion is in no vehicle or in
\* a vehicle other than the latched one, and none is attempted if the
\* companion is in the latched vehicle.
C23_SeatAttemptAsStated ==
    [][(pc = "ride" /\ TryRide) =>
           ((pedVeh = 0 \/ pedVeh # g_ridingVehicleHandle)
                <=> Made(calls', "ride", "IsVehicleSeatFree"))]_vars

\* C23.  On a tick where the player occupies a vehicle, the companion is
\* spawned and stay is not requested, a seat assignment is attempted if
\* riding is false or the player's vehicle is not the latched one, and none
\* is attempted if riding is true and the player is in the latched vehicle,
\* whatever vehicle the companion itself is in.
C23_SeatAttempt ==
    [][(pc = "ride" /\ TryRide) =>
           ((~g_isRiding \/ playerVeh # g_ridingVehicleHandle)
                <=> Made(calls', "ride", "IsVehicleSeatFree"))]_vars

\* C23 witness: the ride block has run with the player in the latched
\* vehicle and the riding flag set, the engine having taken the companion
\* out of the vehicle; no seat was queried.
C23_Witness ==
    /\ pc = "stay"
    /\ TryRide
    /\ g_isRiding
    /\ playerVeh = g_ridingVehicleHandle
    /\ pedVeh = 0
    /\ ~Made(calls, "ride", "IsVehicleSeatFree")


\* C24 as stated.  When the player occupies a vehicle, the companion is
\* spawned, stay is not requested and the ride block found none of the
\* three seats free, riding is false after the ride block and the follow
\* block issues the follow directive once its refresh interval has elapsed,
\* the player still being in the vehicle.
C24_NoSeatFollowAsStated ==
    [][(/\ pc = "follow"
        /\ TryRide
        /\ cmd.requestFollow
        /\ Cardinality({i \in CallsOf(calls, "ride", "IsVehicleSeatFree") :
                           calls[i].arg[3] = 0}) = Len(SeatOrder)
        /\ USub(g_tickCount, g_lastFollowTick) > cmd.followRefreshTicks) =>
           /\ ~g_isRiding
           /\ Made(calls', "follow", "TaskFollowPlayer")]_vars


\* C25 as stated.  On the first tick after a stay episode in which stay is
\* not requested, the stay block runs its exit: it unfreezes the companion,
\* sets hold-position inactive, clears hasStayAnchor and sets the resnap
\* timer and the last-follow tick to 0.
C25_StayExitAsStated ==
    [][(pc = "stay" /\ ~(cmd.requestStay /\ g_state.spawned) /\ stayRun > 0) =>
           /\ Made(calls', "exitStay", "FreezeTestPed")
           /\ ~g_isStayingActive'
           /\ ~g_state'.hasStayAnchor
           /\ g_lastStaySnapTick' = 0
           /\ g_lastFollowTick' = 0]_vars

\* C25.  On a tick whose stay block finds stay not requested while
\* hold-position is still active, the block runs its exit, once: it
\* unfreezes the companion, sets hold-position inactive, clears
\* hasStayAnchor and sets the resnap timer and the last-follow tick to 0.
\* On a tick without a stay request that finds hold-position inactive (any
\* later tick, and also the first one when a recall or a mission start edge
\* ended the episode) the block does nothing.
C25_StayExit ==
    [][(pc = "stay" /\ ~(cmd.requestStay /\ g_state.spawned)) =>
           IF g_isStayingActive
           THEN /\ \E i \in CallsOf(calls', "exitStay", "FreezeTestPed") :
                       calls'[i].arg = <<0>>
                /\ ~g_isStayingActive'
                /\ ~g_state'.hasStayAnchor
                /\ g_lastStaySnapTick' = 0
                /\ g_lastFollowTick' = 0
           ELSE /\ calls' = calls
                /\ UNCHANGED <<g_state, g_isStayingActive, g_lastStaySnapTick,
                               g_lastFollowTick, pedFrozen>>]_vars

\* C25 witness: the stay block has just run its exit on the first tick
\* without a stay request after an episode.
C25_Witness ==
    /\ pc = "follow"
    /\ stayRun = 0
    /\ Made(calls, "exitStay", "FreezeTestPed")
    /\ ~g_isStayingActive
    /\ ~g_state.hasStayAnchor
    /\ ~pedFrozen
    /\ g_lastStaySnapTick = 0
    /\ g_lastFollowTick = 0


\* C26.  On every tick that finds hold-position active and stay still
\* requested, the drift check runs if and only if current tick minus the
\* resnap stamp is at least 60, and re-stamps the resnap timer with the
\* current tick when it runs; it sets the companion's position, to the
\* anchor, if and only if the position it read is further than the drift
\* threshold from the anchor; the anchor is not changed.
C26_DriftCheck ==
    [][(pc = "stay" /\ cmd.requestStay /\ g_state.spawned /\ g_isStayingActive) =>
           LET due == USub(g_tickCount, g_lastStaySnapTick) >= STAY_SNAP_TICKS
               reads == CallsOf(calls', "snap", "GetTestPedPosition")
               sets == CallsOf(calls', "snap", "SetTestPedPosition")
           IN  /\ (reads # {}) <=> due
               /\ g_lastStaySnapTick' =
                      IF due THEN g_tickCount ELSE g_lastStaySnapTick
               /\ (sets # {}) <=>
                      \E i \in reads :
                          LET c == calls'[i].arg
                          IN  DistSq(Vec3(c[1], c[2], c[3]), g_state.stayAnchor)
                                  > DRIFT_SQ
               /\ \A i \in sets : calls'[i].arg = VecArg(g_state.stayAnchor)
               /\ g_state'.stayAnchor = g_state.stayAnchor
               /\ g_isStayingActive']_vars

\* C26 witness: the second drift check of an episode, 120 ticks after the
\* entry, has put the companion back on the anchor and re-stamped the timer.
C26_Witness ==
    /\ pc = "follow"
    /\ g_isStayingActive
    /\ stayRun = 2
    /\ g_tickCount > 2 * STAY_SNAP_TICKS
    /\ Made(calls, "snap", "SetTestPedPosition")
    /\ g_lastStaySnapTick = g_tickCount
    /\ g_state.stayAnchor = runAnchor

\* ------------------------------------------------ EngineAdapter on its own

\* The functions of EngineAdapter called in any order from start-up, with
\* the host running frames in between.  `calls` holds the latest call, as
\* Call("adapter", function, answer), with the natives it invoked that
\* change the world, as Call("native", name, <<>>), and for SpawnTestPed
\* the answer to its last readiness query, as Call("query", name, answer).

\* EngineAdapter.cpp:192.  The iterations of the asset-readiness loop.
LOAD_POLLS == 120

\* Mutant: the guards test the stored handle only, not the entity behind it.
Reaches_HandleOnly(fn, ped, exists, handle, veh) ==
    /\ ped # 0
    /\ fn \in {"TaskFollowPlayer", "TeleportTestPedNearPlayer"} => handle # 0
    /\ fn = "PutTestPedIntoVehicle" => veh # 0

\* EngineAdapter.cpp:262-408.  Does actuator fn get past its guards: the
\* companion exists, and for a follow or a teleport PLAYER_PED_ID is not 0,
\* for a mount the vehicle handle is not 0.
Reaches(fn, ped, exists, handle, veh) ==
    /\ DoesTestPedExist(ped, exists)
    /\ fn \in {"TaskFollowPlayer", "TeleportTestPedNearPlayer"} => handle # 0
    /\ fn = "PutTestPedIntoVehicle" => veh # 0

\* EngineAdapter.cpp:262-408.  The natives an actuator invokes on the
\* companion once past its guards.
WorldCommands(fn) ==
    CASE fn = "TaskFollowPlayer" ->
             <<"FREEZE_ENTITY_POSITION", "TASK_FOLLOW_TO_OFFSET_OF_ENTITY">>
      [] fn = "TeleportTestPedNearPlayer" ->
             <<"CLEAR_PED_TASKS_IMMEDIATELY", "SET_ENTITY_COORDS_NO_OFFSET",
               "SET_ENTITY_VELOCITY", "FREEZE_ENTITY_POSITION">>
      [] fn = "SetTestPedPosition" ->
             <<"SET_ENTITY_COORDS_NO_OFFSET", "SET_ENTITY_VELOCITY">>
      [] fn = "ClearTestPedTasks" -> <<"CLEAR_PED_TASKS_IMMEDIATELY">>
      [] fn = "FreezeTestPed" -> <<"FREEZE_ENTITY_POSITION">>
      [] fn = "PutTestPedIntoVehicle" ->
             <<"CLEAR_PED_TASKS_IMMEDIATELY", "FREEZE_ENTITY_POSITION",
               "SET_PED_INTO_VEHICLE">>

\* The natives of a call, as entries of `calls`.
Natives(names) == [n \in 1..Len(names) |-> Call("native", names[n], <<>>)]

\* EngineAdapter::GetTestPedVehicleHandle
GetTestPedVehicleHandle(ped, exists, veh) ==
    IF ~DoesTestPedExist(ped, exists) THEN 0 ELSE veh

\* What the adapter on its own leaves alone.
loopVars == <<progVars, localVars, playerVeh, obsVars>>

\* EngineAdapter.cpp:262-289, 321-367, 390-408.  One call of an actuator.
Actuate ==
    /\ pc = "adapter"
    /\ \E fn \in {"TaskFollowPlayer", "TeleportTestPedNearPlayer",
                  "SetTestPedPosition", "ClearTestPedTasks", "FreezeTestPed",
                  "PutTestPedIntoVehicle"},
          veh \in 0..1, freeze \in BOOLEAN, survives \in BOOLEAN :
        LET reaches == Reaches(fn, g_testPed, pedExists, playerPed, veh)
            ok == reaches /\ survives
            answer == IF fn = "PutTestPedIntoVehicle" THEN <<BoolCount(ok)>>
                      ELSE <<>>
        IN  /\ calls' = <<Call("adapter", fn, answer)>>
                        \o (IF reaches THEN Natives(WorldCommands(fn)) ELSE <<>>)
            /\ pedFrozen' =
                   IF ~reaches THEN pedFrozen
                   ELSE IF fn = "FreezeTestPed" THEN freeze
                   ELSE IF fn \in {"SetTestPedPosition", "ClearTestPedTasks"}
                   THEN pedFrozen
                   ELSE FALSE
            /\ pedExists' =
                   IF reaches /\ fn = "PutTestPedIntoVehicle" THEN survives
                   ELSE pedExists
            /\ pedVeh' =
                   IF ~reaches THEN pedVeh
                   ELSE IF fn = "PutTestPedIntoVehicle"
                   THEN (IF survives THEN veh ELSE 0)
                   ELSE IF fn = "TeleportTestPedNearPlayer" THEN 0
                   ELSE pedVeh
    /\ UNCHANGED <<loopVars, callVars, pc, adapterVars, playerPed>>

\* EngineAdapter.cpp:303-319, 413-418.  One query about the companion.
QueryCompanion ==
    /\ pc = "adapter"
    /\ \E fn \in {"DoesTestPedExist", "GetTestPedPosition",
                  "GetTestPedVehicleHandle"},
          pos \in PedPoints :
        calls' =
            <<Call("adapter", fn,
                   CASE fn = "DoesTestPedExist" ->
                            <<BoolCount(DoesTestPedExist(g_testPed, pedExists))>>
                     [] fn = "GetTestPedPosition" ->
                            VecArg(GetTestPedPosition(g_testPed, pedExists, pos))
                     [] fn = "GetTestPedVehicleHandle" ->
                            <<GetTestPedVehicleHandle(g_testPed, pedExists, pedVeh)>>)>>
    /\ UNCHANGED <<loopVars, callVars, pc, adapterVars, pedExists, pedFrozen,
                   playerPed, pedVeh>>

\* EngineAdapter.cpp:144-177, 373-381.  One query about the player; the
\* engine's answers are drawn as the query reads them.
QueryPlayer ==
    /\ pc = "adapter"
    /\ \E fn \in {"PlayerExists", "IsPlayerDead", "IsPlayerInVehicle",
                  "GetPlayerPosition", "GetPlayerVehicleHandle"},
          kind \in (IF playerPed = 0 THEN {"none"} ELSE {"gone", "dead", "alive"}),
          deadAnswer \in BOOLEAN, veh \in 0..1, pos \in PlayerPoints :
        calls' =
            <<Call("adapter", fn,
                   CASE fn = "PlayerExists" -> <<BoolCount(PlayerExists(kind))>>
                     [] fn = "IsPlayerDead" ->
                            <<BoolCount(IsPlayerDead(kind, deadAnswer))>>
                     [] fn = "IsPlayerInVehicle" ->
                            <<BoolCount(IsPlayerInVehicle(kind, veh))>>
                     [] fn = "GetPlayerPosition" ->
                            VecArg(GetPlayerPosition(playerPed, pos))
                     [] fn = "GetPlayerVehicleHandle" ->
                            <<GetPlayerVehicleHandle(playerPed, veh)>>)>>
    /\ UNCHANGED <<loopVars, callVars, pc, adapterVars, pedExists, pedFrozen,
                   playerPed, pedVeh>>

\* Mutant: one remembered state for all keys.
Remember_OneSlot(table, vk, downNow) == [k \in Keys |-> downNow]

\* EngineAdapter.cpp:299.  prev[vk] = cur.
Remember(table, vk, downNow) == [table EXCEPT ![vk] = downNow]

\* EngineAdapter.cpp:291-301.  One poll of key vk.
KeyPoll ==
    /\ pc = "adapter"
    /\ \E vk \in Keys, downNow \in BOOLEAN :
        /\ calls' = <<Call("adapter", "IsKeyJustPressed",
                           <<vk, BoolCount(IsKeyJustPressed(prev[vk], downNow))>>)>>
        /\ prev' = Remember(prev, vk, downNow)
        /\ lastDown' = [lastDown EXCEPT ![vk] = downNow]
    /\ UNCHANGED <<loopVars, spawnWait, leaked, pc, g_testPed, engineVars, pedVeh>>

\* Mutant: the spawn request never finds the companion there already.
AlreadySpawned_Never(ped, exists) == FALSE

\* EngineAdapter.cpp:182.  "Already spawned?"
AlreadySpawned(ped, exists) == ped # 0 /\ exists

\* EngineAdapter.cpp:181-189.  SpawnTestPed up to its loop: it returns true
\* at once when the companion is there, and requests the model otherwise.
SpawnEnter ==
    /\ pc = "adapter"
    /\ IF AlreadySpawned(g_testPed, pedExists)
       THEN /\ calls' = <<Call("adapter", "SpawnTestPed", <<1>>)>>
            /\ pc' = "adapter"
       ELSE /\ calls' = <<Call("native", "REQUEST_MODEL", <<>>)>>
            /\ pc' = "poll"
    /\ spawnWait' = NoWait
    /\ UNCHANGED <<loopVars, lastDown, leaked, adapterVars, engineVars, pedVeh>>

\* Mutant: the loop runs while i <= 120.
KeepsPolling_Inclusive(i) == i <= LOAD_POLLS

\* EngineAdapter.cpp:192.  i < 120
KeepsPolling(i) == i < LOAD_POLLS

\* EngineAdapter.cpp:192-197.  One iteration of the loop: a poll of
\* HAS_MODEL_LOADED, which ends the loop when the model is loaded, and
\* otherwise WAIT(0), through which the host runs a frame, and ++i.
SpawnPoll ==
    /\ pc = "poll"
    /\ KeepsPolling(spawnWait.i)
    /\ \E loaded \in BOOLEAN, handle \in 0..1, vanish \in BOOLEAN :
        IF loaded
        THEN /\ spawnWait' = [spawnWait EXCEPT !.polls = @ + 1]
             /\ pc' = "check"
             /\ UNCHANGED <<playerPed, pedExists, pedFrozen, pedVeh>>
        ELSE /\ spawnWait' = [i |-> spawnWait.i + 1,
                              polls |-> spawnWait.polls + 1,
                              waits |-> spawnWait.waits + 1]
             /\ pc' = IF KeepsPolling(spawnWait.i + 1) THEN "poll" ELSE "check"
             /\ playerPed' = handle
             /\ pedExists' = (pedExists /\ ~vanish)
             /\ pedFrozen' = (pedExists /\ ~vanish /\ pedFrozen)
             /\ pedVeh' = IF pedExists /\ ~vanish THEN pedVeh ELSE 0
    /\ UNCHANGED <<loopVars, lastDown, leaked, adapterVars, playerVeh, calls>>

\* EngineAdapter.cpp:199-233.  SpawnTestPed after its loop: it asks
\* HAS_MODEL_LOADED once more, gives up when the model is not loaded, and
\* otherwise stores what CREATE_PED returns: a handle to an entity, 0, or a
\* handle to nothing.
SpawnCheck ==
    /\ pc = "check"
    /\ \E loaded \in BOOLEAN, create \in {"ok", "zero", "ghost"} :
        IF ~loaded
        THEN /\ calls' = calls \o <<Call("query", "HAS_MODEL_LOADED", <<0>>),
                                    Call("adapter", "SpawnTestPed", <<0>>)>>
             /\ UNCHANGED <<g_testPed, pedExists, pedFrozen, pedVeh, leaked>>
        ELSE LET made == SpawnTestPed(0, FALSE, pedFrozen, "ready", create)
                 orphan == DoesTestPedExist(g_testPed, pedExists)
             IN  /\ calls' = calls \o <<Call("query", "HAS_MODEL_LOADED", <<1>>),
                                        Call("native", "CREATE_PED", <<>>),
                                        Call("adapter", "SpawnTestPed",
                                             <<BoolCount(made.ok)>>)>>
                 /\ g_testPed' = made.ped
                 /\ pedExists' = made.exists
                 /\ pedFrozen' = made.frozen
                 /\ pedVeh' = 0
                 /\ leaked' = IF orphan /\ leaked < MaxLeaked THEN leaked + 1
                              ELSE leaked
    /\ spawnWait' = NoWait
    /\ pc' = "adapter"
    /\ UNCHANGED <<loopVars, lastDown, prev, playerPed>>

\* EngineAdapter.cpp:236-260.  DespawnTestPed.
Despawn ==
    /\ pc = "adapter"
    /\ LET gone == DespawnTestPed(g_testPed, pedExists, pedFrozen)
       IN  /\ calls' = <<Call("adapter", "DespawnTestPed", <<>>)>>
                       \o (IF DoesTestPedExist(g_testPed, pedExists)
                           THEN Natives(<<"DELETE_PED">>) ELSE <<>>)
           /\ g_testPed' = gone.ped
           /\ pedExists' = gone.exists
           /\ pedFrozen' = gone.frozen
           /\ pedVeh' = IF gone.exists THEN pedVeh ELSE 0
    /\ UNCHANGED <<loopVars, callVars, pc, prev, playerPed>>

\* Between two calls the host runs frames: the player's handle may change,
\* the companion entity may be removed, or leave its vehicle.
HostFrame ==
    /\ pc = "adapter"
    /\ \E handle \in 0..1, vanish \in BOOLEAN, eject \in BOOLEAN :
        /\ playerPed' = handle
        /\ pedExists' = (pedExists /\ ~vanish)
        /\ pedFrozen' = (pedExists /\ ~vanish /\ pedFrozen)
        /\ pedVeh' = IF pedExists /\ ~vanish /\ ~eject THEN pedVeh ELSE 0
    /\ calls' = <<>>
    /\ UNCHANGED <<loopVars, callVars, pc, adapterVars>>

\* Start-up, with the adapter about to be called.
InitAdapter ==
    /\ g_state = InitState
    /\ g_tickCount = 0
    /\ g_lastFollowTick = 0
    /\ g_lastTeleportTick = 0
    /\ g_stayToggle = FALSE
    /\ g_isStayingActive = FALSE
    /\ g_lastStaySnapTick = 0
    /\ g_wasMissionActive = FALSE
    /\ g_companionWasSpawnedBeforeMission = FALSE
    /\ g_stayToggleBeforeMission = FALSE
    /\ g_isRiding = FALSE
    /\ g_ridingVehicleHandle = 0
    /\ g_wasPlayerInVehicle = FALSE
    /\ isMissionActive = FALSE
    /\ ctx = InitContext
    /\ cmd = InitCommands
    /\ pc = "adapter"
    /\ g_testPed = 0
    /\ prev = [k \in Keys |-> FALSE]
    /\ pedExists = FALSE
    /\ pedFrozen = FALSE
    /\ playerPed = 0
    /\ playerVeh = 0
    /\ pedVeh = 0
    /\ calls = <<>>
    /\ runIssue = 0
    /\ cleanIssue = 0
    /\ farSince = 0
    /\ stayRun = 0
    /\ runAnchor = ZeroVec
    /\ lastToggle = "none"
    /\ gateEdge = "none"
    /\ stayAtStart = FALSE
    /\ missionPresses = 0
    /\ gateHeld = FALSE
    /\ lastIssue = 0
    /\ issueGap = 0
    /\ issueAfterReset = FALSE
    /\ lastAuto = 0
    /\ respawnFailed = FALSE
    /\ wrapped = FALSE
    /\ spawnWait = NoWait
    /\ lastDown = [k \in Keys |-> FALSE]
    /\ leaked = 0

NextAdapter ==
    \/ Actuate
    \/ QueryCompanion
    \/ QueryPlayer
    \/ KeyPoll
    \/ SpawnEnter
    \/ SpawnPoll
    \/ SpawnCheck
    \/ Despawn
    \/ HostFrame

SpecAdapter == InitAdapter /\ [][NextAdapter]_vars

\* The script thread runs on after each WAIT(0) and each native returns.
SpecAdapterLive == SpecAdapter /\ WF_vars(SpawnPoll) /\ WF_vars(SpawnCheck)

\* The step is a call of adapter function fn that has returned.
AdapterCall(fn) ==
    /\ pc = "adapter"
    /\ pc' = "adapter"
    /\ calls' # <<>>
    /\ calls'[1].site = "adapter"
    /\ calls'[1].op = fn

\* The part of C27 about the companion: with no companion entity behind the
\* stored handle (the handle is 0, or what it referred to is gone), a
\* follow, teleport, set-position, freeze, clear-tasks or mount call invokes
\* no native on the world and a mount answers false; the exists query
\* answers false, the position query the zero vector and the vehicle query 0.
CompanionGuards ==
    (g_testPed = 0 \/ ~pedExists) =>
        /\ \A fn \in {"TaskFollowPlayer", "TeleportTestPedNearPlayer",
                      "SetTestPedPosition", "ClearTestPedTasks",
                      "FreezeTestPed", "PutTestPedIntoVehicle"} :
               AdapterCall(fn) =>
                   \A n \in 1..Len(calls') : calls'[n].site # "native"
        /\ AdapterCall("PutTestPedIntoVehicle") => calls'[1].arg = <<0>>
        /\ AdapterCall("DoesTestPedExist") => calls'[1].arg = <<0>>
        /\ AdapterCall("GetTestPedPosition") => calls'[1].arg = VecArg(ZeroVec)
        /\ AdapterCall("GetTestPedVehicleHandle") => calls'[1].arg = <<0>>

\* C27 as stated.  Every actuator call and query is guarded: with no
\* companion the actuators command nothing and the companion queries answer
\* false, the zero vector and handle 0; and with PLAYER_PED_ID 0 every
\* player query answers false, the zero vector or handle 0.
C27_GuardsAsStated ==
    [][/\ CompanionGuards
       /\ playerPed = 0 =>
              /\ \A fn \in {"PlayerExists", "IsPlayerDead", "IsPlayerInVehicle"} :
                     AdapterCall(fn) => calls'[1].arg = <<0>>
              /\ AdapterCall("GetPlayerPosition") => calls'[1].arg = VecArg(ZeroVec)
              /\ AdapterCall("GetPlayerVehicleHandle") => calls'[1].arg = <<0>>
      ]_vars

\* C27, amended.  Every actuator call and query is guarded: with no
\* companion the actuators command nothing and the companion queries answer
\* false, the zero vector and handle 0; and with PLAYER_PED_ID 0 the player
\* queries answer exists = false, in vehicle = false, the zero vector and
\* handle 0, and IsPlayerDead answers true.
C27_Guards ==
    [][/\ CompanionGuards
       /\ playerPed = 0 =>
              /\ \A fn \in {"PlayerExists", "IsPlayerInVehicle"} :
                     AdapterCall(fn) => calls'[1].arg = <<0>>
              /\ AdapterCall("IsPlayerDead") => calls'[1].arg = <<1>>
              /\ AdapterCall("GetPlayerPosition") => calls'[1].arg = VecArg(ZeroVec)
              /\ AdapterCall("GetPlayerVehicleHandle") => calls'[1].arg = <<0>>
      ]_vars

\* A follow call has just returned without a native invoked, the stored
\* handle referring to an entity that is gone and the player there.
C27_Witness ==
    /\ pc = "adapter"
    /\ g_testPed # 0
    /\ ~pedExists
    /\ playerPed # 0
    /\ calls = <<Call("adapter", "TaskFollowPlayer", <<>>)>>

\* C28.  A spawn attempt always terminates: once in its readiness loop it
\* comes to return.  The loop makes at most 120 polls and yields to the
\* host once per poll that finds the model not loaded: in the loop every
\* poll so far was followed by a yield, after it at most the last poll was
\* not.  When the model is not loaded at the check after the loop, the
\* attempt answers false, calls no CREATE_PED and leaves the stored handle
\* and the entity behind it as they were.
C28_SpawnTerminates ==
    /\ (pc = "poll") ~> (pc = "adapter")
    /\ [](/\ spawnWait.polls <= 120
          /\ pc = "poll" => spawnWait.waits = spawnWait.polls
          /\ pc = "check" => spawnWait.polls - spawnWait.waits \in {0, 1})
    /\ [][(/\ pc = "check"
           /\ \E n \in 1..Len(calls') :
                  calls'[n] = Call("query", "HAS_MODEL_LOADED", <<0>>))
          => /\ calls'[Len(calls')] = Call("adapter", "SpawnTestPed", <<0>>)
             /\ \A n \in 1..Len(calls') : calls'[n].op # "CREATE_PED"
             /\ g_testPed' = g_testPed
             /\ pedExists' = pedExists
             /\ pc' = "adapter"
      ]_vars

\* The loop has run to its end: 120 polls found the model not loaded and
\* 120 yields followed, with a stale handle stored.
C28_Witness ==
    /\ pc = "check"
    /\ spawnWait.polls = 120
    /\ spawnWait.waits = 120
    /\ g_testPed # 0

\* C29.  IsKeyJustPressed(k) answers true if and only if key k is down at
\* this poll and was not down at the previous poll of k (at start-up: not
\* down), so a key held down over consecutive polls answers true once; and
\* a poll of k leaves what is remembered of every other key as it was.
C29_KeyEdge ==
    [][AdapterCall("IsKeyJustPressed") =>
           LET k == calls'[1].arg[1]
           IN  /\ calls'[1].arg[2] = 1 <=> (lastDown'[k] /\ ~lastDown[k])
               /\ (lastDown[k] /\ lastDown'[k]) => calls'[1].arg[2] = 0
               /\ \A other \in Keys \ {k} : prev'[other] = prev[other]
      ]_vars

\* F6 has just been polled and answered false, being held down since the
\* poll before, while F5, polled earlier, is remembered as down.
C29_Witness ==
    /\ pc = "adapter"
    /\ calls = <<Call("adapter", "IsKeyJustPressed", <<VK_F6, 0>>)>>
    /\ lastDown[VK_F6]
    /\ prev[VK_F5]
    /\ ~prev[VK_F7]

\* C30.  At every point at most one companion entity that the adapter
\* created exists in the world: the one behind the stored handle, with none
\* left behind by an overwritten handle.  A spawn request made while the
\* companion exists answers true at once, without a CREATE_PED and with
\* the handle and the entity as they were; and when a despawn has returned
\* the stored handle is 0, DoesTestPedExist is false and the entity is gone.
C30_SingleCompanion ==
    /\ [](BoolCount(pedExists) + leaked <= 1)
    /\ [][/\ (/\ pc = "adapter"
              /\ g_testPed # 0
              /\ pedExists
              /\ calls' # <<>>
              /\ calls'[1].op \in {"SpawnTestPed", "REQUEST_MODEL"})
             => /\ calls' = <<Call("adapter", "SpawnTestPed", <<1>>)>>
                /\ pc' = "adapter"
                /\ g_testPed' = g_testPed
                /\ pedExists'
                /\ leaked' = leaked
          /\ AdapterCall("DespawnTestPed")
             => /\ g_testPed' = 0
                /\ ~pedExists'
                /\ leaked' = leaked
      ]_vars

\* A spawn request has just answered true without creating anything, the
\* companion being there and seated in a vehicle.
C30_Witness ==
    /\ pc = "adapter"
    /\ calls = <<Call("adapter", "SpawnTestPed", <<1>>)>>
    /\ g_testPed # 0
    /\ pedExists
    /\ pedVeh # 0
    /\ leaked = 0

\* The auto-teleport block reads, in this step, positions further apart
\* than the threshold.
AutoReadsFar ==
    \E i \in CallsOf(calls', "auto", "GetPlayerPosition") :
       \E j \in CallsOf(calls', "auto", "GetTestPedPosition") :
          LET a == calls'[i].arg
              b == calls'[j].arg
          IN  DistSq(Vec3(a[1], a[2], a[3]), Vec3(b[1], b[2], b[3]))
                  > TELEPORT_DIST_SQ

\* C31 as stated.  With L the tick of the latest follow directive
\* (auto-teleport), the next one is not issued until (tick - L) mod 2^w
\* exceeds the refresh interval (the teleport cooldown), and is issued
\* once it does and the block's conditions hold.
C31_WrapAsStated ==
    [][/\ (IssuesFollow /\ lastIssue # 0) =>
              (g_tickCount - lastIssue) % TickModulus > FOLLOW_REFRESH_TICKS
       /\ (AutoTeleports /\ lastAuto # 0) =>
              (g_tickCount - lastAuto) % TickModulus > TELEPORT_COOLDOWN_TICKS
       /\ (/\ pc = "follow" /\ FollowGate /\ lastIssue # 0
           /\ (g_tickCount - lastIssue) % TickModulus > FOLLOW_REFRESH_TICKS)
          => IssuesFollow
       /\ (/\ pc = "autoTeleport" /\ TeleportGate /\ AutoReadsFar /\ lastAuto # 0
           /\ (g_tickCount - lastAuto) % TickModulus > TELEPORT_COOLDOWN_TICKS)
          => AutoTeleports
      ]_vars

\* C31, amended.  Cooldown comparisons are unsigned subtractions modulo
\* 2^w.  While the stamp L of the latest follow directive is still in the
\* last-follow tick (no gating-false tick, recall, auto-teleport or mission
\* edge has reset it), the next directive is issued, the gating condition
\* holding, exactly when (tick - L) mod 2^w exceeds the refresh interval;
\* while the stamp L of the latest auto-teleport is still in the
\* last-teleport tick, the next auto-teleport happens, the gating and
\* too-far conditions holding, exactly when (tick - L) mod 2^w is at least
\* the teleport cooldown; before and after the tick counter wraps around.
C31_Wrap ==
    [][/\ (pc = "follow" /\ FollowGate /\ lastIssue # 0
               /\ g_lastFollowTick = lastIssue)
          => (IssuesFollow <=>
                  (g_tickCount - lastIssue) % TickModulus > FOLLOW_REFRESH_TICKS)
       /\ (pc = "autoTeleport" /\ TeleportGate /\ AutoReadsFar /\ lastAuto # 0
               /\ g_lastTeleportTick = lastAuto)
          => (AutoTeleports <=>
                  (g_tickCount - lastAuto) % TickModulus >= TELEPORT_COOLDOWN_TICKS)
      ]_vars

\* An auto-teleport after the wrap-around, the cooldown counted from a
\* stamp made before it, at a tick number smaller than the cooldown, with
\* follow directives issued since the wrap-around.
C31_Witness ==
    /\ pc = "toggle"
    /\ wrapped
    /\ AutoTeleported
    /\ g_tickCount < TELEPORT_COOLDOWN_TICKS
    /\ lastIssue # 0
    /\ lastIssue < g_tickCount

\* C32.  At the end of every tick the riding flag is true if and only if
\* the latched vehicle handle is not 0, and when it is true the player was
\* in a vehicle on that tick: the snapshot says so and the previous
\* player-in-vehicle flag is true.
C32_RidingLatch ==
    TickEnd =>
        /\ g_isRiding <=> g_ridingVehicleHandle # 0
        /\ g_isRiding => (g_wasPlayerInVehicle /\ ctx.playerInVehicle)

\* The end of a tick in which the player has changed vehicle and the
\* companion could not be put into the new one: the riding flag and the
\* handle of the old vehicle are kept.
C32_Witness ==
    /\ TickEnd
    /\ g_isRiding
    /\ g_ridingVehicleHandle # 0
    /\ playerVeh # 0
    /\ g_ridingVehicleHandle # playerVeh

\* C33 as stated.  At the end of every tick the riding flag implies that
\* the companion is spawned: a despawn by the spawn toggle or at a mission
\* start edge, and a disappearance the snapshot reports, leave riding false.
C33_RidingSpawnedAsStated ==
    TickEnd => (g_isRiding => g_state.spawned)

\* C34 as stated.  At the end of every tick hasStayAnchor is true if and
\* only if hold-position is active (g_isStayingActive).
C34_AnchorIffHoldAsStated ==
    TickEnd => (g_state.hasStayAnchor <=> g_isStayingActive)

C36_NoDecisionLifecycle ==
    /\ ~cmd.requestSpawn
    /\ ~cmd.requestDespawn
    /\ \A i \in 1..Len(calls) :
           calls[i].op \in {"SpawnTestPed", "DespawnTestPed"} =>
               calls[i].site \in {"toggle", "gate"}

\* The decision-driven branches have just been passed in a tick in which
\* Mode Decision ran for a player there and alive with no companion, and
\* the spawn toggle's attempt failed: the companion stays unspawned.
C36_Witness ==
    /\ pc = "recall"
    /\ ctx.playerExists
    /\ ~ctx.playerDead
    /\ ~g_state.spawned
    /\ lastToggle = "failed"
    /\ \A i \in 1..Len(calls) : calls[i].site # "decision"

\* The stay-toggle key goes from up to down in this step's poll of it.
StayKeyEdge == ~prev[VK_F6] /\ prev'[VK_F6]

\* C37.  Each stay-toggle key edge flips the stay toggle exactly once, in the
\* key handling of every tick, whatever the suppression flag and whether or
\* not the companion is spawned (without an edge the key handling leaves the
\* toggle and the follow cooldown alone); a flip that turns stay off sets
\* the follow cooldown to 0; and the stayEnabled given to Mode Decision is
\* the toggle after that tick's key handling, so a request of Mode Decision
\* is a stay request exactly if the toggle is on.
C37_StayToggle ==
    [][/\ pc = "stayToggle" =>
            /\ pc' = "snapshot"
            /\ g_stayToggle' = (g_stayToggle # StayKeyEdge)
            /\ g_lastFollowTick' =
                   IF StayKeyEdge /\ ~g_stayToggle' THEN 0 ELSE g_lastFollowTick
       /\ pc = "snapshot" =>
            /\ g_stayToggle' = g_stayToggle
            /\ g_state'.stayEnabled = g_stayToggle
            /\ cmd'.requestStay => g_stayToggle
            /\ cmd'.requestFollow => ~g_stayToggle
            /\ (g_state'.spawned /\ ctx'.playerExists /\ ~ctx'.playerDead) =>
                   (cmd'.requestStay <=> g_stayToggle)]_vars

\* Mode Decision has just been given a toggle that the key handling of the
\* first tick turned on, in a suppressed tick with no companion.
C37_Witness ==
    /\ pc = "ride"
    /\ g_tickCount = 1
    /\ isMissionActive
    /\ g_testPed = 0
    /\ ~g_state.spawned
    /\ prev[VK_F6]
    /\ g_stayToggle
    /\ g_state.stayEnabled

\* C38 as stated.  No follow directive is issued on a tick numbered 60 or
\* less and no auto-teleport on a tick numbered below 300, whatever the
\* inputs and state.
C38_QuietStartAsStated ==
    /\ FollowIssued => g_tickCount > FOLLOW_REFRESH_TICKS
    /\ AutoTeleported => g_tickCount >= TELEPORT_COOLDOWN_TICKS

\* C38, amended.  No follow directive is issued on a tick numbered 60 or
\* less whose last-follow tick is not greater than the tick number, and no
\* auto-teleport on a tick numbered below 300 whose last-teleport tick is
\* not greater than the tick number; until the tick counter wraps around
\* neither stamp is greater than the tick number, so that neither command
\* is issued on such a tick.
C38_QuietStart ==
    /\ [][/\ (/\ pc = "follow"
              /\ g_tickCount <= FOLLOW_REFRESH_TICKS
              /\ g_lastFollowTick <= g_tickCount) => ~IssuesFollow
          /\ (/\ pc = "autoTeleport"
              /\ g_tickCount < TELEPORT_COOLDOWN_TICKS
              /\ g_lastTeleportTick <= g_tickCount) => ~AutoTeleports
         ]_vars
    /\ [](~wrapped =>
            /\ g_lastFollowTick <= g_tickCount
            /\ g_lastTeleportTick <= g_tickCount
            /\ FollowIssued => g_tickCount > FOLLOW_REFRESH_TICKS
            /\ AutoTeleported => g_tickCount >= TELEPORT_COOLDOWN_TICKS)

\* Tick 60 after a wrap-around has passed its follow and auto-teleport
\* blocks with both gating conditions true, the companion read too far away
\* and both stamps 0: neither command was issued.
C38_Witness ==
    /\ pc = "toggle"
    /\ wrapped
    /\ g_tickCount = FOLLOW_REFRESH_TICKS
    /\ FollowGate
    /\ TeleportGate
    /\ AutoReadFar
    /\ g_lastFollowTick = 0
    /\ g_lastTeleportTick = 0
    /\ ~FollowIssued
    /\ ~AutoTeleported

====
